---- MODULE Spec2Model ----
(***************************************************************************)
(* A model of github.com/jfmow/gtfs: the static GTFS store and its         *)
(* calendar-driven service resolution, the RAPTOR-style journey planner,   *)
(* the realtime fetch-and-cache layer, the feed refresh, the derived       *)
(* caches and the stop and stop-time lookups.                              *)
(*                                                                         *)
(* Conventions.                                                            *)
(*  - A clock string "HH:MM:SS" is the sequence of its ":"-separated       *)
(*    parts; a part is a natural number when strconv.Atoi accepts it and   *)
(*    NaN otherwise; the empty (or blank) string is the empty sequence.    *)
(*  - A date string "YYYYMMDD" is the integer with the same digits: for    *)
(*    eight-digit strings the text order of SQLite and the integer order   *)
(*    coincide.                                                            *)
(*  - Distances are whole metres, speeds whole metres per hour.            *)
(*  - SQL NULL in an INTEGER column is the value Null.                     *)
(*  - An instant is a number of seconds since 00:00:00 UTC of PlanDate.    *)
(*  - A Go map is a function on its keys; a map handed out by reference    *)
(*    is a number that heap resolves to the map's entries, 0 for nil.      *)
(*  - A table is the set of its rows; feed_info, which has no key, is the  *)
(*    sequence of its rows.                                                *)
(*  - The cache fields of the Realtime struct are shared by all callers    *)
(*    of one client.                                                       *)
(***************************************************************************)
EXTENDS Integers, Sequences, FiniteSets, TLC

VARIABLES
    \* ---- the static store (sqlite tables)
    calendar,        \* set of calendar rows
    calendar_dates,  \* set of calendar_dates rows
    trips,           \* set of trips rows
    stop_times,      \* set of stop_times rows
    stopTable,       \* the stops table: set of rows
    \* ---- one call of PlanJourneysRaptor
    req,             \* the JourneyRequest
    pc,              \* where the call is: "idle", "rounds", "select", "done"
    dayTable,        \* trips of loadTripStopTimes: trip_id -> sequence of tripStopTime
    arrival,         \* stop_id -> earliest arrival (seconds), inf when unreached
    predecessor,     \* stop_id -> stopPredecessor, for the stops that have one
    updated,         \* set of stop ids improved in the previous round
    round,           \* the round counter of the loop
    plans,           \* the returned []JourneyPlan
    planErr,         \* the returned error, "" for nil
    \* ---- the last query of the service resolver
    query,           \* the call: operation and arguments
    result,          \* what it returned
    \* ---- the realtime client (package realtime)
    now,             \* time.Now(): seconds since 00:00:00 UTC of PlanDate
    localTimeZone,   \* the client's zone: seconds east of UTC
    kind,            \* the getter the clients of this behaviour call
    cache,           \* that getter's cache: [data (a map reference, 0 = nil), lastUpdated]
    heap,            \* map reference -> the map's entries
    mu,              \* the cache's mutex: "free" or the caller holding it
    rpc,             \* caller -> "idle" or "fetching" (inside fetchProto)
    ret,             \* caller -> what its last get call returned: [data, err]
    fetches,         \* number of fetchProto calls started
    lastFetch,       \* the last fetch that succeeded: [feed, at, updates, before, reported]
    \* ---- the feed lifecycle (New, cron, refreshDatabaseData)
    feed_info,       \* the feed_info table: sequence of rows
    server,          \* what the archive URL serves
    refresh,         \* caller -> where its refreshDatabaseData is
    pending,         \* caller -> the rows of its open transaction
    cronStarted,     \* EnableAutoUpdateGTFSData has started the scheduler
    exited,          \* log.Fatalf has ended the process
    \* ---- the derived caches made by GenerateACache for one Database
    view,            \* cache -> the stored value `cache`, as its two words
    dpc,             \* cache -> where it is: "new", "waiting", "reloading", "tearing"
    loads,           \* cache -> number of calls of its source
    sent,            \* cache -> number of signals sent on RefreshNotifier since it exists
    last,            \* cache -> its last completed reload: [outcome, data]
    completed,       \* cache -> the source results of its reloads that succeeded
    lastGet,         \* cache -> what the last get() returned, and when
    \* ---- the stop and stop-time lookups (stops.go, services.go)
    call,            \* the last lookup called: operation and arguments
    answer           \* what it returned, and what it handed to the driver

storeVars   == <<calendar, calendar_dates, trips, stop_times, stopTable>>
plannerVars == <<req, pc, dayTable, arrival, predecessor, updated, round, plans, planErr>>
queryVars   == <<query, result>>
realtimeVars == <<localTimeZone, kind, cache, heap, mu, rpc, ret, fetches, lastFetch>>
refreshVars == <<feed_info, server, refresh, pending, cronStarted, exited>>
derivedVars == <<view, dpc, loads, sent, last, completed, lastGet>>
lookupVars == <<call, answer>>
vars == <<storeVars, plannerVars, queryVars, now, realtimeVars, refreshVars, derivedVars,
          lookupVars>>

\* What the actions of one component leave alone.
nonPlannerVars  == <<storeVars, queryVars, now, realtimeVars, refreshVars, derivedVars,
                    lookupVars>>
nonResolverVars == <<storeVars, plannerVars, now, realtimeVars, refreshVars, derivedVars,
                    lookupVars>>
nonRealtimeVars == <<storeVars, plannerVars, queryVars, refreshVars, derivedVars,
                    lookupVars>>
nonRefreshVars  == <<plannerVars, queryVars, now, realtimeVars, derivedVars,
                    lookupVars>>
nonDerivedVars  == <<storeVars, plannerVars, queryVars, now, realtimeVars, refreshVars,
                    lookupVars>>
nonLookupVars   == <<storeVars, plannerVars, queryVars, now, realtimeVars, refreshVars,
                    derivedVars>>

\* No realtime client exists.
RealtimeIdle ==
    /\ localTimeZone = 0 /\ kind = "none"
    /\ cache = [data |-> 0, lastUpdated |-> 0]
    /\ heap = <<>> /\ mu = "free" /\ rpc = <<>> /\ ret = <<>> /\ fetches = 0
    /\ lastFetch = [feed |-> <<>>, at |-> 0, updates |-> <<>>, before |-> <<>>,
                    reported |-> <<>>]

\* No Database has been opened by New.
RefreshIdle ==
    /\ feed_info = <<>> /\ server = <<>> /\ refresh = <<>> /\ pending = <<>>
    /\ cronStarted = FALSE /\ exited = FALSE

\* No derived cache has been made.
DerivedIdle ==
    /\ view = <<>> /\ dpc = <<>> /\ loads = <<>> /\ sent = <<>>
    /\ last = <<>> /\ completed = <<>> /\ lastGet = <<>>

\* No stop lookup has been called.
NoLookup ==
    /\ call = [op |-> "none", includeChildStops |-> FALSE, tripID |-> "",
               stopID |-> "", departureTimeFilter |-> <<>>]
    /\ answer = [err |-> "", rows |-> <<>>, placeholders |-> 0, args |-> <<>>]

\* The stops table is empty and no stop lookup has been called.
LookupIdle == stopTable = {} /\ NoLookup

----------------------------------------------------------------------------
(* Generic helpers *)

Null == -1
NaN  == -1

Range(s) == {s[i] : i \in DOMAIN s}

Min(S) == CHOOSE x \in S : \A y \in S : x <= y
Max(S) == CHOOSE x \in S : \A y \in S : x >= y

\* All orders (sequences without repetition) of the finite set S.
RECURSIVE Orders(_)
Orders(S) ==
    IF S = {} THEN {<<>>}
    ELSE UNION {{<<x>> \o o : o \in Orders(S \ {x})} : x \in S}

----------------------------------------------------------------------------
(* Bounds of the model *)

StopIds == <<"A", "B", "C", "D">>
Stops == Range(StopIds)

TripIds == <<"T1", "T2", "T3">>

\* Distance in metres of each stop from the request's start and end point
\* (the value calculateDistance returns for it).
StartDistM == [s \in Stops |->
    CASE s = "A" -> 1 [] s = "B" -> 3 [] OTHER -> 2000]
EndDistM == [s \in Stops |->
    CASE s = "D" -> 1 [] s = "C" -> 4 [] OTHER -> 2000]

\* A request's start or end point is "town", at these distances, or "afar",
\* farther than max_walk_km from every stop.
AfarDistM == [s \in Stops |-> 2000]
startDistM(r) == IF r.StartAt = "afar" THEN AfarDistM ELSE StartDistM
endDistM(r) == IF r.EndAt = "afar" THEN AfarDistM ELSE EndDistM

\* Clock strings a planner feed draws its stop-times from: the empty string
\* and "00:00:01".
PlanTimes == {<<>>, <<0, 0, 1>>}

\* The largest max_transfers a request gives.
MaxReqTransfers == 1

\* The service day of the planner's requests (a Monday) and its neighbours.
Dates == {20240714, 20240715, 20240716}
PlanDate == 20240715

\* time.Weekday of a date of Dates: 0 = Sunday .. 6 = Saturday.
Weekday(d) == (d - 20240714) % 7

----------------------------------------------------------------------------
(* The static store: calendar rules (GetActiveTrips, loadTripStopTimes) *)

\* CTE active_services: the weekly rule UNION ALL the additions of the day.
\* (The DISTINCT of adjusted_services makes the multiset a set.)
active_services(day) ==
    {c.service_id : c \in {c \in calendar :
        /\ c.start_date <= day
        /\ c.end_date >= day
        /\ c.flag[Weekday(day)] = 1}}
    \cup
    {cd.service_id : cd \in {cd \in calendar_dates :
        cd.date = day /\ cd.exception_type = 1}}

\* CTE removed_services.
removed_services(day) ==
    {cd.service_id : cd \in {cd \in calendar_dates :
        cd.date = day /\ cd.exception_type = 2}}

NoRemoval_adjusted_services(day) == active_services(day)

\* CTE adjusted_services: service_id NOT IN (SELECT ... FROM removed_services).
adjusted_services(day) ==
    {s \in active_services(day) : s \notin removed_services(day)}

----------------------------------------------------------------------------
(* Time parsing and walking time (journey.go) *)

inf == 2147483647

DefaultWalkSpeed == 4800     \* 4.8 km/h
DefaultMaxWalkM == 1000      \* 1.0 km
DefaultMaxTransfers == 2
DefaultMaxNearbyStops == 50
DefaultMaxResults == 1

\* parseTimeToSeconds: [err, sec].
parseTimeToSeconds(timeStr) ==
    IF timeStr = <<>> THEN [err |-> TRUE, sec |-> 0]
    ELSE IF Len(timeStr) # 3 THEN [err |-> TRUE, sec |-> 0]
    ELSE IF \E i \in 1..3 : timeStr[i] = NaN THEN [err |-> TRUE, sec |-> 0]
    ELSE [err |-> FALSE, sec |-> timeStr[1] * 3600 + timeStr[2] * 60 + timeStr[3]]

\* math.Round of a non-negative quotient num/den: half away from zero.
RoundDiv(num, den) == (2 * num + den) \div (2 * den)

\* walkDurationSeconds(distanceKm, speedKmph), in metres and metres per hour.
walkDurationSeconds(distanceM, speedMph) ==
    LET speed == IF speedMph <= 0 THEN DefaultWalkSpeed ELSE speedMph
    IN  RoundDiv(distanceM * 3600, speed)

----------------------------------------------------------------------------
(* loadTripStopTimes (journey.go) *)

\* The rows of the query: stop_times JOIN trips JOIN adjusted_services, with
\* the pickup and drop-off filters.
loadRows(day) ==
    {st \in stop_times :
        /\ \E t \in trips : t.trip_id = st.trip_id
                            /\ t.service_id \in adjusted_services(day)
        /\ (st.drop_off_type = 0 \/ st.drop_off_type = Null)
        /\ (st.pickup_type = 0 \/ st.pickup_type = Null)}

routeOf(tripID) == (CHOOSE t \in trips : t.trip_id = tripID).route_id

\* One scanned row as a tripStopTime: an arrival that does not parse is 0, a
\* departure that does not parse is the arrival.
toTripStopTime(st) ==
    LET a == parseTimeToSeconds(st.arrival_time)
        d == parseTimeToSeconds(st.departure_time)
        arrivalSec == IF a.err THEN 0 ELSE a.sec
        departureSec == IF d.err THEN arrivalSec ELSE d.sec
    IN  [StopID |-> st.stop_id, StopSequence |-> st.stop_sequence,
         ArrivalSec |-> arrivalSec, DepartureSec |-> departureSec,
         RouteID |-> routeOf(st.trip_id), TripID |-> st.trip_id]

\* ORDER BY st.stop_sequence within one trip.
RECURSIVE orderBySequence(_)
orderBySequence(rows) ==
    IF rows = {} THEN <<>>
    ELSE LET m == CHOOSE r \in rows :
                    \A q \in rows : r.stop_sequence <= q.stop_sequence
         IN  <<toTripStopTime(m)>> \o orderBySequence(rows \ {m})

\* loadTripStopTimes(dayStart): [err, trips].
loadTripStopTimes(day) ==
    LET rows == loadRows(day)
        ids == {st.trip_id : st \in rows}
    IN  IF ids = {}
        THEN [err |-> "no trip times found for active services", trips |-> <<>>]
        ELSE [err |-> "",
              trips |-> [t \in ids |->
                  orderBySequence({st \in rows : st.trip_id = t})]]

----------------------------------------------------------------------------
(* Nearby stops and destination selection (journey.go) *)

\* sort.Slice by Distance ascending.
RECURSIVE sortByDistance(_, _)
sortByDistance(S, dist) ==
    IF S = {} THEN <<>>
    ELSE LET m == CHOOSE s \in S : \A q \in S : dist[s] <= dist[q]
         IN  <<[Stop |-> m, Distance |-> dist[m]]>> \o sortByDistance(S \ {m}, dist)

filterNearbyStops(stops, dist, maxDistanceM, maxStops) ==
    LET within == {s \in stops : dist[s] <= maxDistanceM}
        sorted == sortByDistance(within, dist)
    IN  IF maxStops < Len(sorted) THEN SubSeq(sorted, 1, maxStops) ELSE sorted

\* Insertion of x into a sequence sorted by ArrivalSec, after its equals:
\* sort.Slice on fewer than 12 elements is an insertion sort.
RECURSIVE insertByArrival(_, _)
insertByArrival(sorted, x) ==
    IF sorted = <<>> THEN <<x>>
    ELSE IF x.ArrivalSec < sorted[1].ArrivalSec THEN <<x>> \o sorted
    ELSE <<sorted[1]>> \o insertByArrival(Tail(sorted), x)

RECURSIVE sortByArrival(_)
sortByArrival(s) ==
    IF s = <<>> THEN <<>>
    ELSE insertByArrival(sortByArrival(SubSeq(s, 1, Len(s) - 1)), s[Len(s)])

RECURSIVE destinationCandidates(_, _, _, _)
destinationCandidates(candidates, arr, departSec, walkSpeed) ==
    IF candidates = <<>> THEN <<>>
    ELSE LET c == candidates[1]
             arrivalAtStop == arr[c.Stop]
             totalArrival == arrivalAtStop + walkDurationSeconds(c.Distance, walkSpeed)
             rest == destinationCandidates(Tail(candidates), arr, departSec, walkSpeed)
         IN  IF arrivalAtStop = inf THEN rest
             ELSE IF totalArrival >= departSec
                  THEN <<[Stop |-> c, ArrivalSec |-> totalArrival]>> \o rest
                  ELSE rest

RECURSIVE anyDestination(_, _, _, _)
anyDestination(candidates, arr, departSec, walkSpeed) ==
    IF candidates = <<>> THEN <<>>
    ELSE <<[Stop |-> candidates[1],
            ArrivalSec |-> (IF arr[candidates[1].Stop] = inf THEN departSec
                            ELSE arr[candidates[1].Stop])
                             + walkDurationSeconds(candidates[1].Distance, walkSpeed)]>>
         \o anyDestination(Tail(candidates), arr, departSec, walkSpeed)

Unreached_selectBestDestinations(candidates, arr, departSec, walkSpeed, maxResults) ==
    LET results == sortByArrival(anyDestination(candidates, arr, departSec, walkSpeed))
    IN  IF maxResults > 0 /\ Len(results) > maxResults
        THEN SubSeq(results, 1, maxResults) ELSE results

selectBestDestinations(candidates, arr, departSec, walkSpeed, maxResults) ==
    LET results == sortByArrival(
            destinationCandidates(candidates, arr, departSec, walkSpeed))
    IN  IF maxResults > 0 /\ Len(results) > maxResults
        THEN SubSeq(results, 1, maxResults) ELSE results

----------------------------------------------------------------------------
(* The rounds of PlanJourneysRaptor (journey.go) *)

\* The request after its defaults are applied.
normalizeRequest(r) ==
    LET r1 == [r  EXCEPT !.MaxWalkM = IF @ <= 0 THEN DefaultMaxWalkM ELSE @]
        r2 == [r1 EXCEPT !.WalkSpeed = IF @ <= 0 THEN DefaultWalkSpeed ELSE @]
        r3 == [r2 EXCEPT !.MaxTransfers = IF @ <= 0 THEN DefaultMaxTransfers ELSE @]
        r4 == [r3 EXCEPT !.MaxNearbyStops = IF @ <= 0 THEN DefaultMaxNearbyStops ELSE @]
        r5 == [r4 EXCEPT !.MinResults = IF @ < 0 THEN 0 ELSE @]
        r6 == [r5 EXCEPT !.MaxResults = IF @ <= 0 THEN DefaultMaxResults ELSE @]
    IN  [r6 EXCEPT !.MaxResults =
            IF r6.MinResults > 0 /\ @ < r6.MinResults THEN r6.MinResults ELSE @]

\* The labels of the nearby start stops: walk-origin predecessors.
RECURSIVE initLabels(_, _, _, _)
initLabels(candidates, departSec, walkSpeed, st) ==
    IF candidates = <<>> THEN st
    ELSE LET c == candidates[1]
             arrivalTime == departSec + walkDurationSeconds(c.Distance, walkSpeed)
         IN  IF arrivalTime < st.arrival[c.Stop]
             THEN initLabels(Tail(candidates), departSec, walkSpeed,
                    [arrival |-> [st.arrival EXCEPT ![c.Stop] = arrivalTime],
                     predecessor |-> (c.Stop :> [FromStopID |-> "", TripID |-> "",
                                                 RouteID |-> "", DepartSec |-> departSec,
                                                 ArriveSec |-> arrivalTime,
                                                 Mode |-> "walk-origin"])
                                     @@ st.predecessor,
                     updated |-> st.updated \cup {c.Stop}])
             ELSE initLabels(Tail(candidates), departSec, walkSpeed, st)

RECURSIVE NotLater_scanTrip(_, _, _, _, _)
NotLater_scanTrip(tripTimes, i, b, st, upd) ==
    IF i > Len(tripTimes) THEN st
    ELSE LET stopTime == tripTimes[i] IN
         IF ~b.boarded
         THEN IF stopTime.StopID \in upd
                 /\ st.arrival[stopTime.StopID] <= stopTime.DepartureSec
              THEN NotLater_scanTrip(tripTimes, i + 1,
                            [boarded |-> TRUE, boardStopID |-> stopTime.StopID,
                             boardDepartSec |-> stopTime.DepartureSec], st, upd)
              ELSE NotLater_scanTrip(tripTimes, i + 1, b, st, upd)
         ELSE IF stopTime.ArrivalSec <= st.arrival[stopTime.StopID]
              THEN NotLater_scanTrip(tripTimes, i + 1, b,
                     [arrival |-> [st.arrival EXCEPT ![stopTime.StopID] = stopTime.ArrivalSec],
                      predecessor |-> (stopTime.StopID :>
                                          [FromStopID |-> b.boardStopID,
                                           TripID |-> stopTime.TripID,
                                           RouteID |-> stopTime.RouteID,
                                           DepartSec |-> b.boardDepartSec,
                                           ArriveSec |-> stopTime.ArrivalSec,
                                           Mode |-> "transit"])
                                      @@ st.predecessor,
                      nextUpdated |-> st.nextUpdated \cup {stopTime.StopID}], upd)
              ELSE NotLater_scanTrip(tripTimes, i + 1, b, st, upd)

\* The scan of one trip from its i-th stop-time on. b is the boarding state
\* (boarded, boardStopID, boardDepartSec); st holds arrival, predecessor and
\* nextUpdated; upd is the set improved in the previous round.
RECURSIVE scanTrip(_, _, _, _, _)
scanTrip(tripTimes, i, b, st, upd) ==
    IF i > Len(tripTimes) THEN st
    ELSE LET stopTime == tripTimes[i] IN
         IF ~b.boarded
         THEN IF stopTime.StopID \in upd
                 /\ st.arrival[stopTime.StopID] <= stopTime.DepartureSec
              THEN scanTrip(tripTimes, i + 1,
                            [boarded |-> TRUE, boardStopID |-> stopTime.StopID,
                             boardDepartSec |-> stopTime.DepartureSec], st, upd)
              ELSE scanTrip(tripTimes, i + 1, b, st, upd)
         ELSE IF stopTime.ArrivalSec < st.arrival[stopTime.StopID]
              THEN scanTrip(tripTimes, i + 1, b,
                     [arrival |-> [st.arrival EXCEPT ![stopTime.StopID] = stopTime.ArrivalSec],
                      predecessor |-> (stopTime.StopID :>
                                          [FromStopID |-> b.boardStopID,
                                           TripID |-> stopTime.TripID,
                                           RouteID |-> stopTime.RouteID,
                                           DepartSec |-> b.boardDepartSec,
                                           ArriveSec |-> stopTime.ArrivalSec,
                                           Mode |-> "transit"])
                                      @@ st.predecessor,
                      nextUpdated |-> st.nextUpdated \cup {stopTime.StopID}], upd)
              ELSE scanTrip(tripTimes, i + 1, b, st, upd)

notBoarded == [boarded |-> FALSE, boardStopID |-> "", boardDepartSec |-> 0]

\* One round: the trips of the day table scanned in the given order.
RECURSIVE scanTrips(_, _, _, _)
scanTrips(order, table, st, upd) ==
    IF order = <<>> THEN st
    ELSE scanTrips(Tail(order), table,
                   scanTrip(table[order[1]], 1, notBoarded, st, upd), upd)

----------------------------------------------------------------------------
(* buildJourneyLegs (journey.go) *)

\* The loop over the predecessor chain from currentStopID. acc holds legs (in
\* the order appended), transfers, transferStops, lastTripID and lastStop.
\* The next stop is a function of the current one alone, so a loop that has
\* not ended after one iteration per stop never ends: fuel counts them.
RECURSIVE followPredecessors(_, _, _, _, _)
followPredecessors(currentStopID, pred, departSec, acc, fuel) ==
    IF currentStopID = "" \/ currentStopID \notin DOMAIN pred THEN acc
    ELSE IF fuel = 0 THEN [acc EXCEPT !.diverges = TRUE]
    ELSE LET p == pred[currentStopID] IN
         IF p.Mode = "walk-origin"
         THEN [acc EXCEPT
                 !.legs = Append(@, [Mode |-> "walk", FromStop |-> "",
                                     ToStop |-> currentStopID, TripID |-> "",
                                     RouteID |-> "", DepartureSec |-> departSec,
                                     ArrivalSec |-> p.ArriveSec]),
                 !.lastStop = currentStopID]
         ELSE LET isTransfer == acc.lastTripID # "" /\ acc.lastTripID # p.TripID
              IN  followPredecessors(p.FromStopID, pred, departSec,
                    [legs |-> Append(acc.legs,
                                [Mode |-> "transit", FromStop |-> p.FromStopID,
                                 ToStop |-> currentStopID, TripID |-> p.TripID,
                                 RouteID |-> p.RouteID, DepartureSec |-> p.DepartSec,
                                 ArrivalSec |-> p.ArriveSec]),
                     transfers |-> IF isTransfer THEN acc.transfers + 1
                                   ELSE acc.transfers,
                     transferStops |-> IF isTransfer
                                       THEN Append(acc.transferStops, acc.lastStop)
                                       ELSE acc.transferStops,
                     lastTripID |-> p.TripID,
                     lastStop |-> p.FromStopID,
                     diverges |-> FALSE],
                    fuel - 1)

reverseLegs(legs) == [i \in 1..Len(legs) |-> legs[Len(legs) + 1 - i]]

\* buildJourneyLegs(endStop, endArrivalSec, predecessor, ...):
\* [legs, transfers, transferStops, diverges].
buildJourneyLegs(endStop, endArrivalSec, pred, departSec, walkSpeed) ==
    IF endStop.Stop = ""
    THEN [legs |-> <<>>, transfers |-> 0, transferStops |-> <<>>, diverges |-> FALSE]
    ELSE LET walkSec == walkDurationSeconds(endStop.Distance, walkSpeed)
             walkToDestination ==
                 [Mode |-> "walk", FromStop |-> endStop.Stop, ToStop |-> "",
                  TripID |-> "", RouteID |-> "",
                  DepartureSec |-> endArrivalSec - walkSec,
                  ArrivalSec |-> endArrivalSec]
             r == followPredecessors(endStop.Stop, pred, departSec,
                    [legs |-> <<walkToDestination>>, transfers |-> 0,
                     transferStops |-> <<>>, lastTripID |-> "",
                     lastStop |-> endStop.Stop, diverges |-> FALSE],
                    Cardinality(Stops))
         IN  [legs |-> reverseLegs(r.legs), transfers |-> r.transfers,
              transferStops |-> r.transferStops, diverges |-> r.diverges]

\* The plans of the chosen destinations, in their order.
RECURSIVE buildPlans(_, _, _, _)
buildPlans(candidates, pred, departSec, walkSpeed) ==
    IF candidates = <<>> THEN <<>>
    ELSE LET c == candidates[1]
             b == buildJourneyLegs(c.Stop, c.ArrivalSec, pred, departSec, walkSpeed)
             rest == buildPlans(Tail(candidates), pred, departSec, walkSpeed)
         IN  IF Len(b.legs) = 0 THEN rest
             ELSE <<[DepartureSec |-> departSec, ArrivalSec |-> c.ArrivalSec,
                     Transfers |-> b.transfers, TransferStops |-> b.transferStops,
                     Legs |-> b.legs, Diverges |-> b.diverges]>> \o rest

----------------------------------------------------------------------------
(* PlanJourneysRaptor as steps (journey.go) *)

emptyLabels ==
    [arrival |-> [s \in Stops |-> inf], predecessor |-> <<>>, updated |-> {}]

nearbyStartStops(r) ==
    filterNearbyStops(Stops, startDistM(r), r.MaxWalkM, r.MaxNearbyStops)
nearbyEndStops(r) ==
    filterNearbyStops(Stops, endDistM(r), r.MaxWalkM, r.MaxNearbyStops)

planFails(err) ==
    /\ planErr' = err
    /\ pc' = "done"
    /\ UNCHANGED <<dayTable, arrival, predecessor, updated, round, plans>>

\* Lines 103-184: defaults, the error returns, the day table and the labels
\* of the nearby start stops.
PlanBegin ==
    /\ pc = "idle"
    /\ LET r == normalizeRequest(req)
           loaded == loadTripStopTimes(PlanDate)
           labels == initLabels(nearbyStartStops(r), r.DepartSec, r.WalkSpeed,
                                emptyLabels)
       IN  /\ req' = r
           /\ IF r.DepartAtZero THEN planFails("depart time required")
              ELSE IF Len(nearbyStartStops(r)) = 0 \/ Len(nearbyEndStops(r)) = 0
              THEN planFails("no nearby stops found for start or end")
              ELSE IF loaded.err # "" THEN planFails(loaded.err)
              ELSE /\ dayTable' = loaded.trips
                   /\ arrival' = labels.arrival
                   /\ predecessor' = labels.predecessor
                   /\ updated' = labels.updated
                   /\ round' = 0
                   /\ pc' = "rounds"
                   /\ UNCHANGED <<plans, planErr>>
    /\ UNCHANGED nonPlannerVars

\* Lines 186-221: one round. The trips are the values of a Go map, ranged
\* over in an order that is not fixed.
PlanRound ==
    /\ pc = "rounds"
    /\ \E order \in Orders(DOMAIN dayTable) :
         LET r == scanTrips(order, dayTable,
                            [arrival |-> arrival, predecessor |-> predecessor,
                             nextUpdated |-> {}], updated)
         IN  /\ arrival' = r.arrival
             /\ predecessor' = r.predecessor
             /\ IF r.nextUpdated = {}
                THEN /\ pc' = "select"
                     /\ UNCHANGED <<updated, round>>
                ELSE /\ updated' = r.nextUpdated
                     /\ round' = round + 1
                     /\ pc' = IF round + 1 <= req.MaxTransfers
                              THEN "rounds" ELSE "select"
    /\ UNCHANGED <<req, dayTable, plans, planErr, nonPlannerVars>>

\* Lines 223-256: the destinations, their plans and the return. A plan whose
\* reconstruction never ends leaves the call hanging.
PlanFinish ==
    /\ pc = "select"
    /\ LET bestCandidates ==
               selectBestDestinations(nearbyEndStops(req), arrival, req.DepartSec,
                                      req.WalkSpeed, req.MaxResults)
           built == buildPlans(bestCandidates, predecessor, req.DepartSec,
                               req.WalkSpeed)
       IN  IF Len(bestCandidates) = 0
           THEN /\ planErr' = "no journey found between the given coordinates"
                /\ plans' = <<>>
                /\ pc' = "done"
           ELSE IF \E i \in DOMAIN built : built[i].Diverges
           THEN /\ pc' = "hang"
                /\ UNCHANGED <<plans, planErr>>
           ELSE IF Len(built) = 0
           THEN /\ planErr' = "no journey legs available"
                /\ plans' = <<>>
                /\ pc' = "done"
           ELSE /\ plans' = built
                /\ planErr' = ""
                /\ pc' = "done"
    /\ UNCHANGED <<req, dayTable, arrival, predecessor, updated, round,
                   nonPlannerVars>>

----------------------------------------------------------------------------
(* The planner's inputs *)

noQuery == [op |-> "none", stopID |-> "", departureTimeFilter |-> <<>>,
            date |-> 0, limit |-> 0]

QueryIdle ==
    /\ query = noQuery
    /\ result = [err |-> "", rows |-> <<>>]

\* A feed trip of two stop-times: from a stop to another, the clock string of
\* the first stop-time and that of the second.
TripShapes ==
    {sh \in [from : Stops, to : Stops, dep : PlanTimes, arr : PlanTimes] :
        sh.from # sh.to}

StopIndex(s) == CHOOSE i \in DOMAIN StopIds : StopIds[i] = s

\* Trip ids only name the trips (the scan order is free): feeds are taken up
\* to a renaming of their trips.
shapeCode(sh) ==
    LET d == parseTimeToSeconds(sh.dep)
        a == parseTimeToSeconds(sh.arr)
    IN  ((StopIndex(sh.from) * 8 + StopIndex(sh.to)) * 8
            + (IF d.err THEN 0 ELSE d.sec + 1)) * 8
            + (IF a.err THEN 0 ELSE a.sec + 1)

shapeRows(tripID, sh) ==
    {[trip_id |-> tripID, stop_id |-> sh.from, stop_sequence |-> 1,
      arrival_time |-> sh.dep, departure_time |-> sh.dep,
      pickup_type |-> 0, drop_off_type |-> 0],
     [trip_id |-> tripID, stop_id |-> sh.to, stop_sequence |-> 2,
      arrival_time |-> sh.arr, departure_time |-> sh.arr,
      pickup_type |-> 0, drop_off_type |-> 0]}

everyDay == [w \in 0..6 |-> 1]

PlannerIdle ==
    /\ req = [DepartAtZero |-> FALSE, DepartSec |-> 0, StartAt |-> "town",
              EndAt |-> "town", MaxWalkM |-> 0,
              WalkSpeed |-> 0, MaxTransfers |-> 0, MaxNearbyStops |-> 0,
              MinResults |-> 0, MaxResults |-> 0]
    /\ pc = "off"
    /\ dayTable = <<>>
    /\ arrival = emptyLabels.arrival
    /\ predecessor = <<>>
    /\ updated = {}
    /\ round = 0
    /\ plans = <<>>
    /\ planErr = ""

\* The requests: with a departure time between two points in town, without
\* a departure time, from afar, to afar.
RequestKinds ==
    {[zero |-> FALSE, start |-> "town", end |-> "town"],
     [zero |-> TRUE,  start |-> "town", end |-> "town"],
     [zero |-> FALSE, start |-> "afar", end |-> "town"],
     [zero |-> FALSE, start |-> "town", end |-> "afar"]}

InitPlanner ==
    /\ calendar = {[service_id |-> "WK", flag |-> everyDay,
                    start_date |-> Min(Dates), end_date |-> Max(Dates)]}
    /\ calendar_dates = {}
    /\ trips = {[trip_id |-> TripIds[k], service_id |-> "WK", route_id |-> "R"] :
                  k \in DOMAIN TripIds}
    /\ \E feed \in [DOMAIN TripIds -> TripShapes] :
         /\ \A k \in DOMAIN TripIds :
               k > 1 => shapeCode(feed[k - 1]) <= shapeCode(feed[k])
         /\ stop_times = UNION {shapeRows(TripIds[k], feed[k]) : k \in DOMAIN TripIds}
    /\ \E k \in 0..MaxReqTransfers, q \in RequestKinds :
         req = [DepartAtZero |-> q.zero, DepartSec |-> 0, StartAt |-> q.start,
                EndAt |-> q.end, MaxWalkM |-> 0,
                WalkSpeed |-> 0, MaxTransfers |-> k, MaxNearbyStops |-> 0,
                MinResults |-> 0, MaxResults |-> 0]
    /\ pc = "idle"
    /\ dayTable = <<>>
    /\ arrival = emptyLabels.arrival
    /\ predecessor = <<>>
    /\ updated = {}
    /\ round = 0
    /\ plans = <<>>
    /\ planErr = ""
    /\ QueryIdle
    /\ RealtimeIdle
    /\ RefreshIdle
    /\ DerivedIdle
    /\ LookupIdle
    /\ now = 0

NextPlanner == PlanBegin \/ PlanRound \/ PlanFinish

SpecPlanner == InitPlanner /\ [][NextPlanner]_vars

----------------------------------------------------------------------------
(* GetActiveTrips (the service resolver) *)

\* SQLite's text order on clock strings with two-digit parts: the order of
\* the part sequences, a proper prefix first.
RECURSIVE textLess(_, _)
textLess(a, b) ==
    IF b = <<>> THEN FALSE
    ELSE IF a = <<>> THEN TRUE
    ELSE IF a[1] # b[1] THEN a[1] < b[1]
    ELSE textLess(Tail(a), Tail(b))

\* time.Parse("15:04:05", s) succeeds.
validClock(s) ==
    /\ Len(s) = 3
    /\ s[1] \in 0..23 /\ s[2] \in 0..59 /\ s[3] \in 0..59

NoPickupFilter_activeTripsWhere(st, stopID, departureTimeFilter) ==
    /\ (departureTimeFilter # <<>> => textLess(departureTimeFilter, st.departure_time))
    /\ (stopID # "" => st.stop_id = stopID)

\* The WHERE clause of GetActiveTrips on the joined row of stop-time st.
activeTripsWhere(st, stopID, departureTimeFilter) ==
    /\ (st.pickup_type = Null \/ st.pickup_type = 0)
    /\ (st.drop_off_type = Null \/ st.drop_off_type = 0)
    /\ (departureTimeFilter # <<>> => textLess(departureTimeFilter, st.departure_time))
    /\ (stopID # "" => st.stop_id = stopID)

\* The joined rows: trips JOIN adjusted_services JOIN stop_times JOIN stops
\* (JOIN routes: every trip of the model has its route).
activeTripsRows(stopID, departureTimeFilter, date) ==
    {st \in stop_times :
        /\ \E t \in trips : t.trip_id = st.trip_id
                            /\ t.service_id \in adjusted_services(date)
        /\ st.stop_id \in Stops
        /\ activeTripsWhere(st, stopID, departureTimeFilter)}

\* A returned StopTimes value.
toStopTimes(st) ==
    LET t == CHOOSE t \in trips : t.trip_id = st.trip_id
    IN  [TripID |-> st.trip_id, ServiceID |-> t.service_id, RouteID |-> t.route_id,
         ArrivalTime |-> st.arrival_time, DepartureTime |-> st.departure_time,
         StopId |-> st.stop_id, StopSequence |-> st.stop_sequence]

\* ORDER BY st.departure_time ASC: the orders of the rows SQLite may produce
\* (rows with equal departure_time come in any order).
orderedByDeparture(rows) ==
    {o \in Orders(rows) :
        \A i \in 1..(Len(o) - 1) :
            ~textLess(o[i + 1].departure_time, o[i].departure_time)}

applyLimit(o, limit) ==
    IF limit > 0 /\ Len(o) > limit THEN SubSeq(o, 1, limit) ELSE o

\* GetActiveTrips(stopID, departureTimeFilter, date, limit).
GetActiveTrips(stopID, departureTimeFilter, date, limit) ==
    /\ query' = [op |-> "GetActiveTrips", stopID |-> stopID,
                 departureTimeFilter |-> departureTimeFilter,
                 date |-> date, limit |-> limit]
    /\ IF departureTimeFilter # <<>> /\ ~validClock(departureTimeFilter)
       THEN result' = [err |-> "invalid departureTimeFilter format", rows |-> <<>>]
       ELSE IF limit < 0
       THEN result' = [err |-> "limit cannot be negative", rows |-> <<>>]
       ELSE \E o \in orderedByDeparture(
                        activeTripsRows(stopID, departureTimeFilter, date)) :
              result' = [err |-> "",
                         rows |-> applyLimit([i \in DOMAIN o |-> toStopTimes(o[i])],
                                             limit)]
    /\ UNCHANGED nonResolverVars

\* A call of the planner's loadTripStopTimes for the service day `date`.
LoadDay(date) ==
    /\ query' = [noQuery EXCEPT !.op = "loadTripStopTimes", !.date = date]
    /\ LET loaded == loadTripStopTimes(date)
       IN  result' = [err |-> loaded.err, rows |-> loaded.trips]
    /\ UNCHANGED nonResolverVars

----------------------------------------------------------------------------
(* The resolver's inputs *)

Services == {"A", "B"}

\* The clock strings of the resolver's stop-times and its departure filter.
EarlyClock == <<8, 0, 0>>
LateClock == <<9, 30, 0>>

\* The most calendar_dates rows of a feed.
MaxExceptions == 2

\* The largest row limit asked for.
MaxLimit == 1

\* Weekly rules: the flags of the weekdays of Dates vary, the others are 0.
WeekFlags ==
    {[w \in 0..6 |-> IF w \in on THEN 1 ELSE 0] :
        on \in SUBSET {Weekday(d) : d \in Dates}}

CalendarRows(s) ==
    [service_id : {s}, flag : WeekFlags, start_date : Dates, end_date : Dates]

ExceptionRows ==
    [service_id : {"A"}, date : Dates, exception_type : {1, 2}]

\* PRIMARY KEY (service_id, date).
exceptionKeysUnique(rows) ==
    \A r1, r2 \in rows :
        (r1.service_id = r2.service_id /\ r1.date = r2.date) => r1 = r2

stopTimeRow(tripID, stopID, clock, pickup, dropOff) ==
    [trip_id |-> tripID, stop_id |-> stopID, stop_sequence |-> 1,
     arrival_time |-> clock, departure_time |-> clock,
     pickup_type |-> pickup, drop_off_type |-> dropOff]

\* Feeds that vary the calendar: service A may have a weekly rule and
\* exceptions, service B runs every day; each service runs one trip with one
\* regular stop-time.
InitCalendarFeed ==
    /\ \E rowsA \in {{}} \cup {{c} : c \in CalendarRows("A")} :
         calendar = rowsA \cup {[service_id |-> "B", flag |-> everyDay,
                                 start_date |-> Min(Dates), end_date |-> Max(Dates)]}
    /\ calendar_dates \in {rows \in SUBSET ExceptionRows :
                             /\ Cardinality(rows) <= MaxExceptions
                             /\ exceptionKeysUnique(rows)}
    /\ trips = {[trip_id |-> "TA", service_id |-> "A", route_id |-> "R"],
                [trip_id |-> "TB", service_id |-> "B", route_id |-> "R"]}
    /\ stop_times = {stopTimeRow("TA", "A", LateClock, 0, 0),
                     stopTimeRow("TB", "A", LateClock, 0, 0)}

\* Feeds that vary the stop-times: both services run every day; each trip has
\* one stop-time whose pickup_type and drop_off_type vary, and the stop and
\* the clock of trip TA's vary.
InitStopTimesFeed ==
    /\ calendar = {[service_id |-> s, flag |-> everyDay,
                    start_date |-> Min(Dates), end_date |-> Max(Dates)] :
                     s \in Services}
    /\ calendar_dates = {}
    /\ trips = {[trip_id |-> "TA", service_id |-> "A", route_id |-> "R"],
                [trip_id |-> "TB", service_id |-> "B", route_id |-> "R"]}
    /\ \E sa \in {"A", "B"}, ca \in {EarlyClock, LateClock},
          pa, da \in {Null, 0, 1, 2}, pb, db \in {Null, 0, 1} :
         stop_times = {stopTimeRow("TA", sa, ca, pa, da),
                       stopTimeRow("TB", "A", LateClock, pb, db)}

InitResolver ==
    /\ InitCalendarFeed \/ InitStopTimesFeed
    /\ PlannerIdle
    /\ QueryIdle
    /\ RealtimeIdle
    /\ RefreshIdle
    /\ DerivedIdle
    /\ LookupIdle
    /\ now = 0

NextResolver ==
    \/ \E stopID \in {"", "A"}, f \in {<<>>, EarlyClock}, d \in Dates,
          limit \in 0..MaxLimit :
         GetActiveTrips(stopID, f, d, limit)
    \/ \E d \in Dates : LoadDay(d)

SpecResolver == InitResolver /\ [][NextResolver]_vars

----------------------------------------------------------------------------
(* The realtime client (package realtime): inputs *)

Callers == {"c1", "c2"}
Kinds == {"vehicles", "tripUpdates", "alerts"}

\* time.Time{}, the lastUpdated of a cache that never stored: long before
\* every instant of the model.
ZeroTime == -2000000000

\* v.refreshPeriod, one hour.
RefreshPeriod == 3600

\* The clock starts at 08:00:00 UTC of PlanDate and advances by half hours.
Now0 == 28800
TickS == 1800
MaxTicks == 3

\* The most fetchProto calls of one behaviour.
MaxFetches == 2

\* The zones of the client: UTC and one hour east of it.
TzOffsets == {0, 3600}

\* The errors of fetchProto.
FetchErrors ==
    {"error performing request", "unexpected status code",
     "error unmarshalling protobuf", "no results returned from the api"}

vehicle(tripID, position) == [trip_id |-> tripID, position |-> position]

\* The entity lists the vehicles endpoint answers with.
VehicleFeeds ==
    {<<vehicle("T", 1)>>,
     <<vehicle("T", 2), vehicle("U", 1)>>,
     <<vehicle("U", 2), vehicle("U", 3)>>}

alertEntity(id, text) == [id |-> id, alert |-> text]

\* The entity lists the alerts endpoint answers with.
AlertFeeds ==
    {<<alertEntity("a1", 1)>>,
     <<alertEntity("a1", 2), alertEntity("a2", 1)>>,
     <<alertEntity("a2", 2)>>}

stu(seq, stopID, delay) ==
    [stop_sequence |-> seq, stop_id |-> stopID, delay |-> delay]

\* A TripUpdate: start_date as a date number (0 for ""), start_time as a clock
\* string, timestamp 0 when absent.
tripUpdate(tripID, startDate, startTime, timestamp, stus) ==
    [trip |-> [trip_id |-> tripID, start_date |-> startDate, start_time |-> startTime],
     timestamp |-> timestamp,
     stop_time_update |-> stus]

tuEarly   == tripUpdate("T", PlanDate, <<7, 30, 0>>, 100, <<stu(1, "A", 60), stu(0, "D", 5)>>)
tuNewer   == tripUpdate("T", PlanDate, <<7, 45, 0>>, 200, <<stu(2, "B", 30), stu(0, "C", 0)>>)
tuSoon    == tripUpdate("T", PlanDate, <<8, 45, 0>>, 150, <<stu(3, "C", 10), stu(1, "A", 90)>>)
tuFuture  == tripUpdate("T", PlanDate, <<11, 0, 0>>, 300, <<stu(3, "C", 0)>>)
tuNoStart == tripUpdate("T", PlanDate, <<>>, 400, <<stu(1, "A", 0)>>)
tuNight   == tripUpdate("U", PlanDate, <<25, 10, 0>>, 100, <<stu(1, "A", 0)>>)
tuOther   == tripUpdate("U", PlanDate, <<7, 30, 0>>, 100, <<stu(0, "D", 0), stu(0, "", 5)>>)

\* The entity lists the trip-updates endpoint answers with.
TripUpdateFeeds ==
    {<<tuEarly, tuNewer>>,
     <<tuNewer, tuEarly>>,
     <<tuEarly, tuNewer, tuFuture>>,
     <<tuFuture, tuEarly>>,
     <<tuFuture, tuSoon>>,
     <<tuNoStart, tuNight>>,
     <<tuNoStart, tuEarly>>,
     <<tuEarly, tuOther>>,
     <<tuOther>>}

----------------------------------------------------------------------------
(* Trip-update selection and merge (tripupdates.go) *)

\* m[k] = v on a Go map.
put(m, k, v) == [x \in DOMAIN m \cup {k} |-> IF x = k THEN v ELSE m[x]]

emptyMap == <<>>

daysInMonth(y, m) ==
    IF m \in {4, 6, 9, 11} THEN 30
    ELSE IF m # 2 THEN 31
    ELSE IF (y % 4 = 0 /\ y % 100 # 0) \/ y % 400 = 0 THEN 29 ELSE 28

\* The date part of the layout "20060102".
validDate(d) ==
    LET y == d \div 10000
        m == (d \div 100) % 100
    IN  /\ d > 0
        /\ m \in 1..12
        /\ (d % 100) \in 1..daysInMonth(y, m)

\* Days from PlanDate to d, for dates of PlanDate's month.
daysSince(d) == d - PlanDate

\* time.Parse("20060102 15:04:05", start_date + " " + start_time): the
\* wall-clock time read in UTC, [err, instant].
parseStart(trip) ==
    IF validDate(trip.start_date) /\ validClock(trip.start_time)
    THEN [err |-> FALSE,
          instant |-> daysSince(trip.start_date) * 86400
                        + trip.start_time[1] * 3600
                        + trip.start_time[2] * 60 + trip.start_time[3]]
    ELSE [err |-> TRUE, instant |-> 0]

\* hasStarted := !startDateTime.After(now), for a start that parsed.
hasStarted(trip, t) == ~(parseStart(trip).instant > t)

\* The selection loop of GetTripUpdates at the instant t.
RECURSIVE selectUpdates(_, _, _)
selectUpdates(updates, feed, t) ==
    IF feed = <<>> THEN updates
    ELSE
      LET tu == Head(feed)
          tripId == tu.trip.trip_id
          start == parseStart(tu.trip)
          started == hasStarted(tu.trip, t)
      IN  IF start.err THEN selectUpdates(updates, Tail(feed), t)
          ELSE IF tripId \notin DOMAIN updates
          THEN selectUpdates(put(updates, tripId, tu), Tail(feed), t)
          ELSE
            LET existing == updates[tripId]
                existingStart == parseStart(existing.trip)
                existingHasStarted == hasStarted(existing.trip, t)
                replace ==
                    /\ ~existingStart.err
                    /\ \/ ~existingHasStarted /\ started
                       \/ /\ started /\ existingHasStarted
                          /\ tu.timestamp > existing.timestamp
            IN  selectUpdates(IF replace THEN put(updates, tripId, tu) ELSE updates,
                              Tail(feed), t)

noKey == [by |-> "", seq |-> 0, id |-> ""]

\* stopKey: "seq:<n>", "id:<stop_id>" or "".
stopKey(s) ==
    IF s.stop_sequence # 0 THEN [by |-> "seq", seq |-> s.stop_sequence, id |-> ""]
    ELSE IF s.stop_id # "" THEN [by |-> "id", seq |-> 0, id |-> s.stop_id]
    ELSE noKey

\* The keys of the entries of a StopTimeUpdate list.
keysOf(stus) == {stopKey(stus[i]) : i \in DOMAIN stus} \ {noKey}

\* stopMap[key] = stu for the entries of a list that have a key.
RECURSIVE overlay(_, _)
overlay(stopMap, stus) ==
    IF stus = <<>> THEN stopMap
    ELSE overlay(IF stopKey(Head(stus)) = noKey THEN stopMap
                 ELSE put(stopMap, stopKey(Head(stus)), Head(stus)),
                 Tail(stus))

\* The lists sort.SliceStable can give from the entries of stopMap, ranged
\* over in any order: non-decreasing stop_sequence.
mergedLists(stopMap) ==
    {l \in Orders(Range(stopMap)) :
        \A i \in 1..(Len(l) - 1) : l[i].stop_sequence <= l[i + 1].stop_sequence}

ExistingWins_mergeTripUpdates(existing, fetched) ==
    LET preferFetched == fetched.timestamp >= existing.timestamp
        stopMap == overlay(overlay(emptyMap, fetched.stop_time_update),
                           existing.stop_time_update)
    IN  {[trip |-> IF preferFetched THEN fetched.trip ELSE existing.trip,
          timestamp |-> IF preferFetched THEN fetched.timestamp ELSE existing.timestamp,
          stop_time_update |-> l] : l \in mergedLists(stopMap)}

FetchedOnly_mergeTripUpdates(existing, fetched) ==
    {[trip |-> fetched.trip, timestamp |-> fetched.timestamp,
      stop_time_update |-> l] : l \in mergedLists(overlay(emptyMap, fetched.stop_time_update))}

\* mergeTripUpdates(existing, fetched): the TripUpdates it can return.
mergeTripUpdates(existing, fetched) ==
    LET preferFetched == fetched.timestamp >= existing.timestamp
        stopMap == overlay(overlay(emptyMap, existing.stop_time_update),
                           fetched.stop_time_update)
    IN  {[trip |-> IF preferFetched THEN fetched.trip ELSE existing.trip,
          timestamp |-> IF preferFetched THEN fetched.timestamp ELSE existing.timestamp,
          stop_time_update |-> l] : l \in mergedLists(stopMap)}

NoDelete_mergedCaches(old, updates) ==
    LET candidates(t) == IF t \in DOMAIN updates
                         THEN IF t \in DOMAIN old
                              THEN mergeTripUpdates(old[t], updates[t])
                              ELSE {updates[t]}
                         ELSE {old[t]}
        all == DOMAIN old \cup DOMAIN updates
    IN  {m \in [all -> UNION {candidates(t) : t \in all}] :
            \A t \in all : m[t] \in candidates(t)}

\* The entries the cached map can hold after the merge and delete loops.
mergedCaches(old, updates) ==
    LET candidates(t) == IF t \in DOMAIN old
                         THEN mergeTripUpdates(old[t], updates[t])
                         ELSE {updates[t]}
    IN  {m \in [DOMAIN updates -> UNION {candidates(t) : t \in DOMAIN updates}] :
            \A t \in DOMAIN updates : m[t] \in candidates(t)}

RECURSIVE buildVehicles(_, _)
buildVehicles(vehicles, feed) ==
    IF feed = <<>> THEN vehicles
    ELSE buildVehicles(put(vehicles, Head(feed).trip_id, Head(feed).position),
                       Tail(feed))

RECURSIVE buildAlerts(_, _)
buildAlerts(alerts, feed) ==
    IF feed = <<>> THEN alerts
    ELSE buildAlerts(put(alerts, Head(feed).id, Head(feed).alert), Tail(feed))

----------------------------------------------------------------------------
(* GetVehicles, GetTripUpdates, GetAlerts *)

\* len(cache.data) of a map reference.
len(ref) == IF ref = 0 THEN 0 ELSE Cardinality(DOMAIN heap[ref])

\* The test that returns the cached map without fetching.
servedFromCache ==
    /\ len(cache.data) >= 1
    /\ cache.lastUpdated + RefreshPeriod > now

\* A map reference that is not in use.
newRef == Cardinality(DOMAIN heap) + 1

\* A get call takes the lock, and either returns the cached map or enters
\* fetchProto holding the lock.
GetBegin(c) ==
    /\ rpc[c] = "idle"
    /\ mu = "free"
    /\ IF servedFromCache
       THEN /\ ret' = [ret EXCEPT ![c] = [data |-> cache.data, err |-> ""]]
            /\ UNCHANGED <<rpc, mu, fetches>>
       ELSE /\ fetches < MaxFetches
            /\ rpc' = [rpc EXCEPT ![c] = "fetching"]
            /\ mu' = c
            /\ fetches' = fetches + 1
            /\ UNCHANGED ret
    /\ UNCHANGED <<now, localTimeZone, kind, cache, heap, lastFetch, nonRealtimeVars>>

\* fetchProto returns an error: the call returns nil and the error.
FetchFails(c, err) ==
    /\ rpc[c] = "fetching"
    /\ rpc' = [rpc EXCEPT ![c] = "idle"]
    /\ mu' = "free"
    /\ ret' = [ret EXCEPT ![c] = [data |-> 0, err |-> err]]
    /\ UNCHANGED <<now, localTimeZone, kind, cache, heap, lastFetch, fetches,
                   nonRealtimeVars>>

\* The common end of a get call that fetched: unlock and return the map.
returnMap(c, ref) ==
    /\ rpc' = [rpc EXCEPT ![c] = "idle"]
    /\ mu' = "free"
    /\ ret' = [ret EXCEPT ![c] = [data |-> ref, err |-> ""]]
    /\ UNCHANGED <<now, localTimeZone, kind, fetches, nonRealtimeVars>>

\* GetVehicles after fetchProto returned the entities of feed: a new map
\* replaces the cached one.
StoreVehicles(c, feed) ==
    /\ rpc[c] = "fetching" /\ kind = "vehicles"
    /\ heap' = put(heap, newRef, buildVehicles(emptyMap, feed))
    /\ cache' = [data |-> newRef, lastUpdated |-> now]
    /\ lastFetch' = [feed |-> feed, at |-> now, updates |-> emptyMap,
                   before |-> emptyMap, reported |-> emptyMap]
    /\ returnMap(c, newRef)

\* GetAlerts after fetchProto returned the entities of feed.
StoreAlerts(c, feed) ==
    /\ rpc[c] = "fetching" /\ kind = "alerts"
    /\ heap' = put(heap, newRef, buildAlerts(emptyMap, feed))
    /\ cache' = [data |-> newRef, lastUpdated |-> now]
    /\ lastFetch' = [feed |-> feed, at |-> now, updates |-> emptyMap,
                   before |-> emptyMap, reported |-> emptyMap]
    /\ returnMap(c, newRef)

\* The keys reported for each trip_id of updates, given those of the fetches
\* before.
reportedKeys(earlier, updates) ==
    [t \in DOMAIN updates |->
        keysOf(updates[t].stop_time_update)
            \cup (IF t \in DOMAIN earlier THEN earlier[t] ELSE {})]

\* GetTripUpdates after fetchProto returned the entities of feed: select,
\* then merge into the cached map itself (made on the first store) and
\* delete from it the trips the fetch does not have.
StoreTripUpdates(c, feed) ==
    /\ rpc[c] = "fetching" /\ kind = "tripUpdates"
    /\ LET updates == selectUpdates(emptyMap, feed, now)
           ref == IF cache.data = 0 THEN newRef ELSE cache.data
           old == IF cache.data = 0 THEN emptyMap ELSE heap[cache.data]
       IN  /\ \E m \in mergedCaches(old, updates) : heap' = put(heap, ref, m)
           /\ cache' = [data |-> ref, lastUpdated |-> now]
           /\ lastFetch' = [feed |-> feed, at |-> now, updates |-> updates,
                             before |-> old,
                             reported |-> reportedKeys(lastFetch.reported, updates)]
           /\ returnMap(c, ref)

\* Time passes.
Tick ==
    /\ now < Now0 + MaxTicks * TickS
    /\ now' = now + TickS
    /\ UNCHANGED <<localTimeZone, kind, cache, heap, mu, rpc, ret, fetches, lastFetch,
                   nonRealtimeVars>>

\* before: the cached trip updates as they were when the store began;
\* reported: for each selected trip_id the keys of the entries selected for it
\* by this fetch and by the unbroken run of fetches before it that selected it.
noFetch == [feed |-> <<>>, at |-> 0, updates |-> emptyMap, before |-> emptyMap,
            reported |-> emptyMap]

InitRealtime ==
    /\ now = Now0
    /\ localTimeZone \in TzOffsets
    /\ kind \in Kinds
    /\ cache = [data |-> 0, lastUpdated |-> ZeroTime]
    /\ heap = emptyMap
    /\ mu = "free"
    /\ rpc = [c \in Callers |-> "idle"]
    /\ ret = [c \in Callers |-> [data |-> 0, err |-> ""]]
    /\ fetches = 0
    /\ lastFetch = noFetch
    /\ calendar = {} /\ calendar_dates = {} /\ trips = {} /\ stop_times = {}
    /\ PlannerIdle
    /\ QueryIdle
    /\ RefreshIdle
    /\ DerivedIdle
    /\ LookupIdle

NextRealtime ==
    \/ \E c \in Callers : GetBegin(c)
    \/ \E c \in Callers, err \in FetchErrors : FetchFails(c, err)
    \/ \E c \in Callers, feed \in VehicleFeeds : StoreVehicles(c, feed)
    \/ \E c \in Callers, feed \in AlertFeeds : StoreAlerts(c, feed)
    \/ \E c \in Callers, feed \in TripUpdateFeeds : StoreTripUpdates(c, feed)
    \/ Tick

SpecRealtime == InitRealtime /\ [][NextRealtime]_vars

----------------------------------------------------------------------------
(* The feed lifecycle: New, the cron jobs, refreshDatabaseData *)

\* The callers of refreshDatabaseData: New and the two cron entries.
CronJobs == {"cron23", "cron03"}
Refreshers == {"New"} \cup CronJobs

\* The most firings of the cron entries in a behaviour.
MaxCronRuns == 2

\* The members of the archive, in archive order.
Members == <<"stops", "calendar", "trips", "stop_times", "feed_info">>

\* The tables of sqlite_master, in the order createDefaultGTFSTables made
\* them.
TableOrder ==
    <<"agency", "stops", "routes", "trips", "stop_times", "calendar",
      "calendar_dates", "fare_attributes", "fare_rules", "shapes", "frequencies",
      "transfers", "pathways", "levels", "feed_info">>

\* The rows of version ver of the feed, per member; its feed_end_date.
memberRows(ver, endDate) ==
    [stops |-> {[stop_id |-> "A", location_type |-> 0, parent_station |-> ""]},
     calendar |-> {[service_id |-> "S", flag |-> everyDay,
                    start_date |-> Min(Dates), end_date |-> endDate]},
     trips |-> {[trip_id |-> "T1", service_id |-> "S", route_id |-> "R"]},
     stop_times |-> {stopTimeRow("T1", "A", EarlyClock, 0, 0)},
     feed_info |-> {[feed_version |-> ver, feed_end_date |-> endDate]}]

\* The committed rows of the tables the archive fills.
tablesNow ==
    [stops |-> stopTable, calendar |-> calendar, trips |-> trips,
     stop_times |-> stop_times, feed_info |-> Range(feed_info)]

\* No transaction. write: the transaction has written, so its connection
\* holds SQLite's write lock until it commits.
noTx == [table |-> "", rows |-> {}, write |-> FALSE]

\* The tables without rows: what a caller that is not inside
\* refreshDatabaseData remembers of the tables.
noRows ==
    [stops |-> {}, calendar |-> {}, trips |-> {}, stop_times |-> {}, feed_info |-> {}]

\* Another connection holds SQLite's write lock: it is inside a transaction
\* that has written, or its autocommitted DELETE is executing. A write that
\* meets the lock fails at once with "database is locked".
lockedByOther(p) ==
    \E q \in Refreshers \ {p} : pending[q].write \/ refresh[q].pc = "deleting"

\* The primary key of a row of a table (feed_info has none).
primaryKey(table, row) ==
    IF table = "stops" THEN <<row.stop_id>>
    ELSE IF table = "calendar" THEN <<row.service_id>>
    ELSE IF table = "trips" THEN <<row.trip_id>>
    ELSE IF table = "stop_times" THEN <<row.trip_id, row.stop_sequence>>
    ELSE <<>>

\* INSERT of row fails on a UNIQUE constraint.
duplicateKey(table, row) ==
    /\ table # "feed_info"
    /\ \E r \in tablesNow[table] : primaryKey(table, r) = primaryKey(table, row)

NotBefore_IsFeedDataUpToDate(t) ==
    /\ feed_info # <<>>
    /\ validDate(feed_info[1].feed_end_date)
    /\ daysSince(feed_info[1].feed_end_date) * 86400 >= t

\* FeedEndDate and IsFeedDataUpToDate at the instant t.
IsFeedDataUpToDate(t) ==
    /\ feed_info # <<>>
    /\ validDate(feed_info[1].feed_end_date)
    /\ daysSince(feed_info[1].feed_end_date) * 86400 > t

\* refreshDatabaseData is entered: deleteOldData reads the table names from
\* sqlite_master. before: the rows the tables held when the refresh that New
\* makes began.
refreshBegin(p) ==
    /\ refresh' = [refresh EXCEPT ![p] =
                      [pc |-> "delete", table |-> 1, member |-> 0, bad |-> "",
                       before |-> IF p = "New" THEN tablesNow ELSE noRows,
                       runs |-> refresh[p].runs + 1]]
    /\ UNCHANGED <<storeVars, feed_info, pending, exited, server>>

\* New: refresh when the stored feed is not up to date, then start the cron
\* scheduler.
NewDatabase ==
    /\ ~exited
    /\ refresh["New"].pc = "start"
    /\ IF IsFeedDataUpToDate(now)
       THEN /\ refresh' = [refresh EXCEPT !["New"].pc = "idle"]
            /\ cronStarted' = TRUE
            /\ UNCHANGED <<storeVars, feed_info, pending, exited, server>>
       ELSE /\ refreshBegin("New")
            /\ UNCHANGED cronStarted
    /\ UNCHANGED nonRefreshVars

\* A cron entry fires and calls refreshDatabaseData on its own goroutine.
CronFires(p) ==
    /\ ~exited
    /\ cronStarted
    /\ refresh[p].pc = "idle"
    /\ refresh["cron23"].runs + refresh["cron03"].runs < MaxCronRuns
    /\ refreshBegin(p)
    /\ UNCHANGED <<cronStarted, nonRefreshVars>>

\* DELETE FROM table, a statement of its own, commits; of agency, routes and
\* the tables from fare_attributes to levels no rows are kept here.
deleteFrom(table) ==
    /\ stopTable' = IF table = "stops" THEN {} ELSE stopTable
    /\ trips' = IF table = "trips" THEN {} ELSE trips
    /\ stop_times' = IF table = "stop_times" THEN {} ELSE stop_times
    /\ calendar' = IF table = "calendar" THEN {} ELSE calendar
    /\ calendar_dates' = IF table = "calendar_dates" THEN {} ELSE calendar_dates
    /\ feed_info' = IF table = "feed_info" THEN <<>> ELSE feed_info

\* One turn of the loop of deleteOldData: the DELETE of the next table is
\* issued and takes the write lock. The first DELETE that fails (the
\* database is locked by another connection) ends deleteOldData with an
\* error, which refreshDatabaseData logs; after the loop come
\* createDefaultGTFSTables and createIndexes, which change nothing in a
\* database that has its tables.
deleteOldData(p) ==
    /\ ~exited
    /\ refresh[p].pc = "delete"
    /\ refresh' = [refresh EXCEPT
          ![p].pc = IF lockedByOther(p) THEN "fetch" ELSE "deleting",
          ![p].table = IF lockedByOther(p) THEN 1 ELSE @]
    /\ UNCHANGED <<storeVars, feed_info, pending, exited, server, cronStarted,
                   nonRefreshVars>>

\* The DELETE that is executing commits and gives the write lock back; the
\* loop goes on to the next table or ends.
deleteReturns(p) ==
    /\ ~exited
    /\ refresh[p].pc = "deleting"
    /\ deleteFrom(TableOrder[refresh[p].table])
    /\ refresh' = [refresh EXCEPT
          ![p].pc = IF refresh[p].table < Len(TableOrder) THEN "delete" ELSE "fetch",
          ![p].table = IF refresh[p].table < Len(TableOrder) THEN @ + 1 ELSE 1]
    /\ UNCHANGED <<pending, exited, server, cronStarted, nonRefreshVars>>

\* log.Fatalf: the process exits; what was not committed is lost.
fatal ==
    /\ exited' = TRUE
    /\ UNCHANGED <<storeVars, feed_info, refresh, pending, cronStarted, server>>

\* fetchZip fails, or returns bytes zip.NewReader cannot read.
FetchZipFails(p) ==
    /\ ~exited
    /\ refresh[p].pc = "fetch"
    /\ fatal
    /\ UNCHANGED nonRefreshVars

\* fetchZip returns the archive.
FetchZip(p) ==
    /\ ~exited
    /\ refresh[p].pc = "fetch"
    /\ refresh' = [refresh EXCEPT ![p].pc = "ingest", ![p].member = 1,
                                  ![p].bad = server.bad]
    /\ UNCHANGED <<storeVars, feed_info, pending, exited, cronStarted, server,
                   nonRefreshVars>>

\* writeFilesToDB on the next member: db.Begin, the header, and the records
\* up to EOF or to the first one that cannot be read or inserted. The first
\* INSERT takes the write lock, or fails when another connection holds it;
\* an INSERT that fails on a UNIQUE constraint, and a record that cannot be
\* read, leave the transaction open with the lock. After the failure
\* log.Fatalf is on its way to os.Exit.
MemberIngest(p) ==
    /\ ~exited
    /\ refresh[p].pc = "ingest"
    /\ LET table == Members[refresh[p].member]
           rows == memberRows(server.version, server.endDate)[table]
       IN  IF lockedByOther(p)
           THEN /\ pending' = [pending EXCEPT ![p] =
                      [table |-> table, rows |-> {}, write |-> FALSE]]
                /\ refresh' = [refresh EXCEPT ![p].pc = "fatal"]
           ELSE IF \E r \in rows : duplicateKey(table, r)
           THEN /\ pending' = [pending EXCEPT ![p] =
                      [table |-> table, rows |-> {}, write |-> TRUE]]
                /\ refresh' = [refresh EXCEPT ![p].pc = "fatal"]
           ELSE /\ pending' = [pending EXCEPT ![p] =
                      [table |-> table, rows |-> rows, write |-> TRUE]]
                /\ refresh' = [refresh EXCEPT ![p].pc =
                      IF refresh[p].bad = table THEN "fatal" ELSE "commit"]
    /\ UNCHANGED <<storeVars, feed_info, exited, cronStarted, server, nonRefreshVars>>

\* os.Exit(1) at the end of the log.Fatalf that follows a failed member.
Exit(p) ==
    /\ ~exited
    /\ refresh[p].pc = "fatal"
    /\ fatal
    /\ UNCHANGED nonRefreshVars

appendRows(table, rows) ==
    /\ stopTable' = IF table = "stops" THEN stopTable \cup rows ELSE stopTable
    /\ calendar' = IF table = "calendar" THEN calendar \cup rows ELSE calendar
    /\ trips' = IF table = "trips" THEN trips \cup rows ELSE trips
    /\ stop_times' = IF table = "stop_times" THEN stop_times \cup rows ELSE stop_times
    /\ feed_info' = IF table = "feed_info"
                    THEN feed_info \o <<CHOOSE r \in rows : TRUE>>
                    ELSE feed_info
    /\ UNCHANGED calendar_dates

\* tx.Commit of the member; after the last member refreshDatabaseData
\* returns, and New goes on to EnableAutoUpdateGTFSData.
MemberCommit(p) ==
    /\ ~exited
    /\ refresh[p].pc = "commit"
    /\ appendRows(pending[p].table, pending[p].rows)
    /\ pending' = [pending EXCEPT ![p] = noTx]
    /\ IF refresh[p].member < Len(Members)
       THEN /\ refresh' = [refresh EXCEPT ![p].pc = "ingest",
                                         ![p].member = refresh[p].member + 1]
            /\ UNCHANGED cronStarted
       ELSE /\ refresh' = [refresh EXCEPT ![p].pc = "idle", ![p].member = 0,
                                         ![p].bad = "", ![p].before = noRows]
            /\ cronStarted' = (cronStarted \/ p = "New")
    /\ UNCHANGED <<exited, server, nonRefreshVars>>

----------------------------------------------------------------------------
(* The feed lifecycle: inputs *)

\* The archive the URL serves when a fetch succeeds: its version, its
\* feed_end_date, and the member with a record that cannot be read or
\* inserted ("" for none).
Servers ==
    [version : {2}, endDate : {Max(Dates)}, bad : {"", "trips", "feed_info"}]

\* The database file New opens: empty, or loaded with version 1 of the feed
\* ending endDate.
loadedWith(endDate) ==
    /\ stopTable = memberRows(1, endDate).stops
    /\ calendar = memberRows(1, endDate).calendar
    /\ trips = memberRows(1, endDate).trips
    /\ stop_times = memberRows(1, endDate).stop_times
    /\ feed_info = <<[feed_version |-> 1, feed_end_date |-> endDate]>>
    /\ calendar_dates = {}

emptyDatabase ==
    /\ stopTable = {}
    /\ calendar = {} /\ trips = {} /\ stop_times = {} /\ calendar_dates = {}
    /\ feed_info = <<>>

\* The instants at which New is called: noon of the day before PlanDate,
\* midnight and noon of PlanDate, midnight of the day after.
OpenInstants == {-43200, 0, 43200, 86400}

InitRefresh ==
    /\ emptyDatabase \/ (\E d \in Dates \cup {0} : loadedWith(d))
    /\ now \in OpenInstants
    /\ server \in Servers
    /\ refresh = [p \in Refreshers |->
                    [pc |-> IF p = "New" THEN "start" ELSE "idle",
                     table |-> 1, member |-> 0, bad |-> "", before |-> noRows,
                     runs |-> 0]]
    /\ pending = [p \in Refreshers |-> noTx]
    /\ cronStarted = FALSE
    /\ exited = FALSE
    /\ PlannerIdle
    /\ QueryIdle
    /\ RealtimeIdle
    /\ DerivedIdle
    /\ NoLookup

NextRefresh ==
    \/ NewDatabase
    \/ \E p \in CronJobs : CronFires(p)
    \/ \E p \in Refreshers : deleteOldData(p)
    \/ \E p \in Refreshers : deleteReturns(p)
    \/ \E p \in Refreshers : FetchZipFails(p)
    \/ \E p \in Refreshers : FetchZip(p)
    \/ \E p \in Refreshers : MemberIngest(p)
    \/ \E p \in Refreshers : MemberCommit(p)
    \/ \E p \in Refreshers : Exit(p)

SpecRefresh == InitRefresh /\ [][NextRefresh]_vars

----------------------------------------------------------------------------
(* The derived caches: GenerateACache *)

\* The caches made for one Database; they share its RefreshNotifier.
Caches == {"k1", "k2"}
MaxSignals == 2

\* What refreshFunc can return: an error (failed), or one of these results.
failed == -1
SourceData == {1, 2, 3}
SourceResults == {failed} \cup SourceData
BadData == 3
emptyValue == 0

\* transform(data): an error for BadData, else a value that differs from
\* every source result and from emptyValue.
transform(data) == IF data = BadData THEN failed ELSE data + 10

\* A value of type Out in memory: it takes two machine words or more when
\* Out is a slice, a string, an interface or a struct (with Identity as the
\* transform, Out is the type the source returns, such as []Route).
words(v) == [a |-> v, b |-> v]

\* The outcome of refreshFunc followed by transform.
reloadOutcome(r) ==
    IF r = failed THEN "sourceFailed"
    ELSE IF transform(r) = failed THEN "transformFailed"
    ELSE "ok"

\* The value refreshCache stores for the source result r.
reloaded(r) == IF reloadOutcome(r) = "ok" THEN transform(r) ELSE emptyValue

noReload == [outcome |-> "none", data |-> 0]
noGet == [value |-> words(emptyValue), during |-> "none", after |-> noReload]

\* GenerateACache: the first refreshCache runs before the getter exists, then
\* the goroutine starts to range over v.RefreshNotifier.
GenerateACache(k, r) ==
    /\ dpc[k] = "new"
    /\ view' = [view EXCEPT ![k] = words(reloaded(r))]
    /\ loads' = [loads EXCEPT ![k] = 1]
    /\ last' = [last EXCEPT ![k] = [outcome |-> reloadOutcome(r), data |-> r]]
    /\ completed' = [completed EXCEPT ![k] =
                        IF reloadOutcome(r) = "ok" THEN @ \cup {r} ELSE @]
    /\ dpc' = [dpc EXCEPT ![k] = "waiting"]
    /\ UNCHANGED <<sent, lastGet>>
    /\ UNCHANGED nonDerivedVars

\* One send on the unbuffered RefreshNotifier: it completes by handing the
\* signal to one goroutine that is waiting in its range loop, here cache k's.
Signal(k) ==
    /\ dpc[k] = "waiting"
    /\ \A j \in Caches : sent[j] < MaxSignals
    /\ sent' = [j \in Caches |-> IF dpc[j] = "new" THEN sent[j] ELSE sent[j] + 1]
    /\ dpc' = [dpc EXCEPT ![k] = "reloading"]
    /\ UNCHANGED <<view, loads, last, completed, lastGet>>
    /\ UNCHANGED nonDerivedVars

\* refreshCache in cache k's goroutine. On success the store is made under
\* mu.Lock; on either failure `cache = emptyValue` is a plain store, made
\* word by word while get() may run: here its first word w is written.
refreshCache(k, r, w) ==
    /\ dpc[k] = "reloading"
    /\ loads' = [loads EXCEPT ![k] = @ + 1]
    /\ last' = [last EXCEPT ![k] = [outcome |-> reloadOutcome(r), data |-> r]]
    /\ IF reloadOutcome(r) = "ok"
       THEN /\ view' = [view EXCEPT ![k] = words(transform(r))]
            /\ completed' = [completed EXCEPT ![k] = @ \cup {r}]
            /\ dpc' = [dpc EXCEPT ![k] = "waiting"]
       ELSE /\ view' = [view EXCEPT ![k][w] = emptyValue]
            /\ dpc' = [dpc EXCEPT ![k] = "tearing"]
            /\ UNCHANGED completed
    /\ UNCHANGED <<sent, lastGet>>
    /\ UNCHANGED nonDerivedVars

\* The rest of the unlocked store of emptyValue.
finishStore(k) ==
    /\ dpc[k] = "tearing"
    /\ view' = [view EXCEPT ![k] = words(emptyValue)]
    /\ dpc' = [dpc EXCEPT ![k] = "waiting"]
    /\ UNCHANGED <<loads, sent, last, completed, lastGet>>
    /\ UNCHANGED nonDerivedVars

\* The getter: it reads `cache` under mu.RLock, which keeps out the locked
\* store only.
get(k) ==
    /\ dpc[k] # "new"
    /\ lastGet' = [lastGet EXCEPT ![k] =
                      [value |-> view[k], during |-> dpc[k], after |-> last[k]]]
    /\ UNCHANGED <<view, dpc, loads, sent, last, completed>>
    /\ UNCHANGED nonDerivedVars

InitDerived ==
    /\ view = [k \in Caches |-> words(emptyValue)]
    /\ dpc = [k \in Caches |-> "new"]
    /\ loads = [k \in Caches |-> 0]
    /\ sent = [k \in Caches |-> 0]
    /\ last = [k \in Caches |-> noReload]
    /\ completed = [k \in Caches |-> {}]
    /\ lastGet = [k \in Caches |-> noGet]
    /\ now = 0
    /\ calendar = {} /\ calendar_dates = {} /\ trips = {} /\ stop_times = {}
    /\ PlannerIdle
    /\ QueryIdle
    /\ RealtimeIdle
    /\ RefreshIdle
    /\ LookupIdle

NextDerived ==
    \/ \E k \in Caches, r \in SourceResults : GenerateACache(k, r)
    \/ \E k \in Caches : Signal(k)
    \/ \E k \in Caches, r \in SourceResults, w \in {"a", "b"} : refreshCache(k, r, w)
    \/ \E k \in Caches : finishStore(k)
    \/ \E k \in Caches : get(k)

SpecDerived == InitDerived /\ [][NextDerived]_vars

\* Every goroutine that has received a signal runs its refreshCache to the end.
SpecDerivedLive ==
    /\ SpecDerived
    /\ \A k \in Caches :
          /\ WF_vars(\E r \in SourceResults, w \in {"a", "b"} : refreshCache(k, r, w))
          /\ WF_vars(finishStore(k))

----------------------------------------------------------------------------
(* The stop and stop-time lookups (stops.go, services.go) *)

\* The stops of the lookups' feeds. insertRecord leaves the empty fields of a
\* record out of its INSERT, so a column of a stored row holds its DEFAULT
\* (location_type 0, parent_station '') rather than NULL.
LookupStops == {"A", "B"}
LocationTypes == {0, 1, 2}

StopRows ==
    {r \in [stop_id : LookupStops, location_type : LocationTypes,
            parent_station : {""} \cup LookupStops] :
        r.parent_station # r.stop_id}

\* stop_id TEXT PRIMARY KEY.
stopIdsUnique(rows) ==
    \A r1, r2 \in rows : r1.stop_id = r2.stop_id => r1 = r2

\* A returned Stop value.
toStop(s) ==
    [StopId |-> s.stop_id, LocationType |-> s.location_type,
     ParentStation |-> s.parent_station]

\* The WHERE clause GetStops adds when child stops are not wanted.
getStopsWhere(s, includeChildStops) ==
    includeChildStops \/ s.location_type = 1 \/ s.parent_station = ""

\* The end of both stop lookups: an empty result is an error; the rows come
\* in the order SQLite produces them (the query has no ORDER BY).
stopAnswers(found, emptyErr, placeholders, args) ==
    IF found = {}
    THEN {[err |-> emptyErr, rows |-> <<>>, placeholders |-> placeholders,
           args |-> args]}
    ELSE {[err |-> "", rows |-> [i \in DOMAIN o |-> toStop(o[i])],
           placeholders |-> placeholders, args |-> args] : o \in Orders(found)}

\* GetStops(includeChildStops).
GetStops(includeChildStops) ==
    /\ call' = [op |-> "GetStops", includeChildStops |-> includeChildStops,
                tripID |-> "", stopID |-> "", departureTimeFilter |-> <<>>]
    /\ answer' \in stopAnswers({s \in stopTable : getStopsWhere(s, includeChildStops)},
                               "no stops found", 0, <<>>)
    /\ UNCHANGED stopTable
    /\ UNCHANGED nonLookupVars

\* The WHERE clause of GetChildStopsByParentStopID.
childStopsWhere(s, stopID) ==
    \/ (s.stop_id = stopID /\ s.parent_station = "" /\ s.location_type = 0)
    \/ s.parent_station = stopID

\* GetChildStopsByParentStopID(stopID).
GetChildStopsByParentStopID(stopID) ==
    /\ call' = [op |-> "GetChildStopsByParentStopID", includeChildStops |-> FALSE,
                tripID |-> "", stopID |-> stopID, departureTimeFilter |-> <<>>]
    /\ answer' \in stopAnswers({s \in stopTable : childStopsWhere(s, stopID)},
                               "no child stops found", 2, <<stopID, stopID>>)
    /\ UNCHANGED stopTable
    /\ UNCHANGED nonLookupVars

\* The two copies of GetServiceByTripAndStop in the source: the one of
\* services.go, and the one that also excludes the stop-times with
\* pickup_type 1 or drop_off_type 1.
ServiceCopies == {"plain", "boarding"}

\* The WHERE clause of GetServiceByTripAndStop on the joined row of stop-time
\* st; the departure condition is there when the filter is not empty.
serviceWhere(st, tripID, stopId, departureTimeFilter, copy) ==
    /\ st.trip_id = tripID
    /\ st.stop_id = stopId
    /\ (copy = "boarding" =>
          /\ st.pickup_type # Null /\ st.pickup_type # 1
          /\ st.drop_off_type # Null /\ st.drop_off_type # 1)
    /\ (departureTimeFilter # <<>> => textLess(departureTimeFilter, st.departure_time))

\* The joined rows: trips JOIN stop_times JOIN stops (JOIN routes: every trip
\* of the model has its route).
serviceRows(tripID, stopId, departureTimeFilter, copy) ==
    {st \in stop_times :
        /\ \E t \in trips : t.trip_id = st.trip_id
        /\ \E s \in stopTable : s.stop_id = st.stop_id
        /\ serviceWhere(st, tripID, stopId, departureTimeFilter, copy)}

\* The number of "?" of the query text.
servicePlaceholders(departureTimeFilter) ==
    IF departureTimeFilter # <<>> THEN 3 ELSE 2

\* The arguments handed to db.QueryRow after the query text.
serviceArgs(tripID, stopId, departureTimeFilter) ==
    <<tripID, stopId, departureTimeFilter>>

\* GetServiceByTripAndStop(tripID, stopId, departureTimeFilter). The driver
\* is not part of the source: given more arguments than the statement has
\* parameters it either leaves the surplus unbound or fails the query, and
\* the error of a failed query is the one Scan returns.
GetServiceByTripAndStop(tripID, stopId, departureTimeFilter, copy, surplusIgnored) ==
    /\ call' = [op |-> "GetServiceByTripAndStop", includeChildStops |-> FALSE,
                tripID |-> tripID, stopID |-> stopId,
                departureTimeFilter |-> departureTimeFilter]
    /\ LET placeholders == servicePlaceholders(departureTimeFilter)
           args == serviceArgs(tripID, stopId, departureTimeFilter)
           found == serviceRows(tripID, stopId, departureTimeFilter, copy)
           refused(e) == [err |-> e, rows |-> <<>>, placeholders |-> placeholders,
                          args |-> args]
       IN  IF tripID = ""
           THEN answer' = [err |-> "missing trip id", rows |-> <<>>,
                           placeholders |-> 0, args |-> <<>>]
           ELSE IF Len(args) # placeholders /\ ~surplusIgnored
           THEN answer' = refused("wrong number of arguments")
           ELSE IF found = {}
           THEN answer' = refused("sql: no rows in result set")
           ELSE \E o \in orderedByDeparture(found) :
                  answer' = [err |-> "", rows |-> <<toStopTimes(o[1])>>,
                             placeholders |-> placeholders, args |-> args]
    /\ UNCHANGED stopTable
    /\ UNCHANGED nonLookupVars

\* Feeds of the lookups: up to two stops, each a stop, a station or an
\* entrance, with or without a parent; one trip with one stop-time.
InitLookups ==
    /\ stopTable \in {rows \in SUBSET StopRows : stopIdsUnique(rows)}
    /\ calendar = {[service_id |-> "A", flag |-> everyDay,
                    start_date |-> Min(Dates), end_date |-> Max(Dates)]}
    /\ calendar_dates = {}
    /\ trips = {[trip_id |-> "TA", service_id |-> "A", route_id |-> "R"]}
    /\ \E sa \in LookupStops, ca \in {EarlyClock, LateClock}, pa, da \in {0, 1} :
         stop_times = {stopTimeRow("TA", sa, ca, pa, da)}
    /\ call = [op |-> "none", includeChildStops |-> FALSE, tripID |-> "",
               stopID |-> "", departureTimeFilter |-> <<>>]
    /\ answer = [err |-> "", rows |-> <<>>, placeholders |-> 0, args |-> <<>>]
    /\ PlannerIdle
    /\ QueryIdle
    /\ RealtimeIdle
    /\ RefreshIdle
    /\ DerivedIdle
    /\ now = 0

NextLookups ==
    \/ \E includeChildStops \in BOOLEAN : GetStops(includeChildStops)
    \/ \E stopID \in LookupStops \cup {""} : GetChildStopsByParentStopID(stopID)
    \/ \E tripID \in {"", "TA"}, stopId \in LookupStops,
          f \in {<<>>, EarlyClock}, copy \in ServiceCopies, surplusIgnored \in BOOLEAN :
         GetServiceByTripAndStop(tripID, stopId, f, copy, surplusIgnored)

SpecLookups == InitLookups /\ [][NextLookups]_vars

----------------------------------------------------------------------------
(* Claims about the order of the scan *)

\* The labels after the round that starts in the current state, its trips
\* scanned in the given order.
roundScanned(order) ==
    scanTrips(order, dayTable,
              [arrival |-> arrival, predecessor |-> predecessor,
               nextUpdated |-> {}], updated)

\* The plans the call returns when no round follows the current one and its
\* trips are scanned in the given order.
plansAfter(order) ==
    LET r == roundScanned(order)
    IN  buildPlans(selectBestDestinations(nearbyEndStops(req), r.arrival,
                                          req.DepartSec, req.WalkSpeed,
                                          req.MaxResults),
                   r.predecessor, req.DepartSec, req.WalkSpeed)

\* C27: the labels after a round, and the plans returned, are the same for
\* every order in which the round scans the trips.
C27_ScanOrderIndifferent ==
    pc = "rounds" =>
        \A o1, o2 \in Orders(DOMAIN dayTable) :
            /\ roundScanned(o1) = roundScanned(o2)
            /\ plansAfter(o1) = plansAfter(o2)

\* The earliest arrivals alone after a round do not depend on the order.
C27_ArrivalsOrderIndifferent ==
    pc = "rounds" =>
        \A o1, o2 \in Orders(DOMAIN dayTable) :
            roundScanned(o1).arrival = roundScanned(o2).arrival

\* The same for the feeds whose clock strings all parse.
C27_ParsedFeedArrivalsOrderIndifferent ==
    (\A st \in stop_times : st.arrival_time # <<>> /\ st.departure_time # <<>>)
        => C27_ArrivalsOrderIndifferent

\* The feed A -> B -> C -> D of three trips whose clock strings all parse,
\* asked with max_transfers = 1, after its rounds.
chainFeedScanned ==
    /\ pc = "select"
    /\ req.MaxTransfers = 1
    /\ \A st \in stop_times : st.arrival_time # <<>> /\ st.departure_time # <<>>
    /\ {<<dayTable[t][1].StopID, dayTable[t][2].StopID>> : t \in DOMAIN dayTable}
          = {<<"A", "B">>, <<"B", "C">>, <<"C", "D">>}

\* On that feed the rounds end with D reached, and with D unreached.
C27_ChainFeedReachesD == chainFeedScanned /\ arrival["D"] # inf
C27_ChainFeedMissesD == chainFeedScanned /\ arrival["D"] = inf

\* The plans of the last round allowed do not depend on the order.
C27_LastRoundPlansOrderIndifferent ==
    (pc = "rounds" /\ round = req.MaxTransfers) =>
        \A o1, o2 \in Orders(DOMAIN dayTable) : plansAfter(o1) = plansAfter(o2)

----------------------------------------------------------------------------
(* Claims about the reconstruction *)

\* The predecessor chain from stop s comes to a walk-origin entry within n
\* transit entries. A chain of more entries than there are stops visits one
\* stop twice, and then goes round for ever.
RECURSIVE endsAtWalkOrigin(_, _)
endsAtWalkOrigin(s, n) ==
    IF s \notin DOMAIN predecessor THEN FALSE
    ELSE IF predecessor[s].Mode = "walk-origin" THEN TRUE
    ELSE IF n = 0 THEN FALSE
    ELSE endsAtWalkOrigin(predecessor[s].FromStopID, n - 1)

\* The destinations whose plans the call builds after the rounds.
destinations ==
    Range(selectBestDestinations(nearbyEndStops(req), arrival, req.DepartSec,
                                 req.WalkSpeed, req.MaxResults))

\* C28: the reconstruction terminates for every predecessor map the rounds
\* produce: from every destination it visits no stop twice and ends at the
\* walk-origin entry.
C28_ReconstructionEndsAtOrigin ==
    /\ pc # "hang"
    /\ pc = "select" =>
          \A c \in destinations : endsAtWalkOrigin(c.Stop.Stop, Cardinality(Stops))

\* C28 on the feeds whose clock strings all parse.
C28_ParsedFeedEndsAtOrigin ==
    (\A st \in stop_times : st.arrival_time # <<>> /\ st.departure_time # <<>>)
        => C28_ReconstructionEndsAtOrigin

----------------------------------------------------------------------------
(* Claims about the stop and stop-time lookups *)

\* A child stop: location_type = 0 and a non-empty parent_station.
childStop(s) == s.location_type = 0 /\ s.parent_station # ""

returnedStops == {answer.rows[i] : i \in DOMAIN answer.rows}

\* C24: GetStops(false) returns exactly the stops that are not child stops,
\* a stop with a parent_station and a location_type other than 0 included;
\* GetStops(true) returns every stop.
C24_GetStopsLeavesOutChildStops ==
    call.op = "GetStops" =>
        returnedStops =
            {toStop(s) : s \in {x \in stopTable :
                                   call.includeChildStops \/ ~childStop(x)}}

\* The half of C24 about GetStops(true).
C24_AllStopsWhenIncluded ==
    (call.op = "GetStops" /\ call.includeChildStops) =>
        returnedStops = {toStop(s) : s \in stopTable}

\* GetStops(false) has answered on a table with a child stop and a stop that
\* has a parent_station and a location_type other than 0.
C24_Case ==
    /\ call.op = "GetStops" /\ ~call.includeChildStops
    /\ \E s \in stopTable : s.parent_station # "" /\ s.location_type # 0

\* GetChildStopsByParentStopID has been called with the id of a stored stop.
childStopsOfExisting ==
    /\ call.op = "GetChildStopsByParentStopID"
    /\ \E s \in stopTable : s.stop_id = call.stopID

\* C25: GetChildStopsByParentStopID(p) returns every stop whose
\* parent_station is p and also the stop p itself, for every stored stop p
\* whatever its location_type.
C25_ChildrenAndTheParent ==
    childStopsOfExisting =>
        returnedStops =
            {toStop(s) : s \in {x \in stopTable :
                                   x.parent_station = call.stopID
                                   \/ x.stop_id = call.stopID}}

\* The half of C25 about the children: every stop whose parent_station is p
\* is returned, and nothing but these and p.
C25_ChildrenReturned ==
    childStopsOfExisting =>
        /\ \A s \in stopTable :
              s.parent_station = call.stopID => toStop(s) \in returnedStops
        /\ \A r \in returnedStops :
              r.ParentStation = call.stopID \/ r.StopId = call.stopID

\* C25 for a stop p with location_type 0 and no parent of its own.
C25_PlainParent ==
    (childStopsOfExisting
     /\ \A s \in stopTable :
           s.stop_id = call.stopID => s.location_type = 0 /\ s.parent_station = "")
        => C25_ChildrenAndTheParent

\* C25 for a station p: location_type 1 and no parent of its own.
C25_StationParent ==
    (childStopsOfExisting
     /\ \A s \in stopTable :
           s.stop_id = call.stopID => s.location_type = 1 /\ s.parent_station = "")
        => C25_ChildrenAndTheParent

\* GetServiceByTripAndStop has been called with a trip id.
serviceLookedUp == call.op = "GetServiceByTripAndStop" /\ call.tripID # ""

\* The stop-times of the called trip at the called stop, joined with its
\* trip and its stop.
stopTimesOfCall ==
    {st \in stop_times :
        /\ st.trip_id = call.tripID /\ st.stop_id = call.stopID
        /\ \E t \in trips : t.trip_id = st.trip_id
        /\ \E s \in stopTable : s.stop_id = st.stop_id}

\* C26: GetServiceByTripAndStop binds exactly as many arguments as its query
\* has placeholders: with an empty departureTimeFilter only (trip_id,
\* stop_id), and it returns the stop-time of that trip at that stop when one
\* exists; with a filter, the filter is the third argument of three.
C26_BindsAsManyAsPlaceholders ==
    serviceLookedUp =>
        /\ Len(answer.args) = answer.placeholders
        /\ (call.departureTimeFilter = <<>> =>
              /\ Len(answer.args) = 2
              /\ (stopTimesOfCall # {} =>
                    /\ answer.err = ""
                    /\ \E st \in stopTimesOfCall : answer.rows = <<toStopTimes(st)>>))
        /\ (call.departureTimeFilter # <<>> =>
              /\ Len(answer.args) = 3
              /\ answer.args[3] = call.departureTimeFilter)

\* The half of C26 about a call with a filter.
C26_FilterIsThirdArgument ==
    (serviceLookedUp /\ call.departureTimeFilter # <<>>) =>
        /\ answer.placeholders = 3
        /\ answer.args = <<call.tripID, call.stopID, call.departureTimeFilter>>

\* With an empty filter the call hands three arguments to a query of two
\* placeholders.
C26_SurplusArgument ==
    (serviceLookedUp /\ call.departureTimeFilter = <<>>) =>
        /\ answer.placeholders = 2
        /\ answer.args = <<call.tripID, call.stopID, <<>>>>

----------------------------------------------------------------------------
(* Claims about the service resolver *)

\* The services the two-step rule makes active on `date`, computed from the
\* tables directly: (weekly rule \cup added exceptions) \ removed exceptions.
weeklyServices(date) ==
    {c.service_id : c \in {r \in calendar :
        /\ r.start_date <= date /\ date <= r.end_date
        /\ r.flag[Weekday(date)] = 1}}

addedServices(date) ==
    {e.service_id : e \in {r \in calendar_dates :
        r.date = date /\ r.exception_type = 1}}

removedServices(date) ==
    {e.service_id : e \in {r \in calendar_dates :
        r.date = date /\ r.exception_type = 2}}

ruleServices(date) ==
    (weeklyServices(date) \cup addedServices(date)) \ removedServices(date)

serviceOfTrip(tripID) == (CHOOSE t \in trips : t.trip_id = tripID).service_id

\* The services of the rows a query returned.
resultServices ==
    IF query.op = "GetActiveTrips"
    THEN {result.rows[i].ServiceID : i \in DOMAIN result.rows}
    ELSE {serviceOfTrip(id) : id \in DOMAIN result.rows}

unfiltered ==
    \/ query.op = "loadTripStopTimes"
    \/ /\ query.op = "GetActiveTrips"
       /\ query.stopID = "" /\ query.departureTimeFilter = <<>> /\ query.limit = 0

\* C3: a service is active on date D exactly when it is in (weekly rule \cup
\* added exceptions) \ removed exceptions; GetActiveTrips and the planner's
\* loadTripStopTimes return rows of active services only, and, when no filter
\* or limit cuts rows off, of every active service that has a regular
\* stop-time.
C3_ActiveServices ==
    (query.op # "none" /\ result.err = "") =>
        /\ resultServices \subseteq ruleServices(query.date)
        /\ unfiltered =>
             resultServices =
                {t.service_id : t \in {r \in trips :
                    /\ r.service_id \in ruleServices(query.date)
                    /\ \E st \in stop_times :
                         /\ st.trip_id = r.trip_id
                         /\ st.pickup_type \in {Null, 0}
                         /\ st.drop_off_type \in {Null, 0}}}

\* A removal exception overrides the weekly rule of the query's day while
\* another service is returned.
C3_Witness ==
    /\ query.op = "GetActiveTrips" /\ result.err = ""
    /\ "A" \in weeklyServices(query.date) \cap removedServices(query.date)
    /\ "A" \notin resultServices
    /\ "B" \in resultServices

\* The stored stop-time a returned row was read from.
storedRow(r) ==
    CHOOSE st \in stop_times :
        st.trip_id = r.TripID /\ st.stop_sequence = r.StopSequence

\* C4: GetActiveTrips never returns a stop-time whose pickup_type is 1 or
\* whose drop_off_type is 1; a row whose values are 0 or NULL is not excluded
\* on that ground (with no other filter, every such row of an active service
\* is returned).
C4_NoPickupNoDropOff ==
    (query.op = "GetActiveTrips" /\ result.err = "") =>
        /\ \A i \in DOMAIN result.rows :
             /\ storedRow(result.rows[i]).pickup_type # 1
             /\ storedRow(result.rows[i]).drop_off_type # 1
        /\ unfiltered =>
             \A st \in stop_times :
                (/\ st.pickup_type \in {Null, 0} /\ st.drop_off_type \in {Null, 0}
                 /\ serviceOfTrip(st.trip_id) \in ruleServices(query.date))
                    => \E i \in DOMAIN result.rows : storedRow(result.rows[i]) = st

\* A call returned a row stored with NULL values while the other trip's row,
\* which forbids pickup, was left out.
C4_Witness ==
    /\ query.op = "GetActiveTrips" /\ result.err = ""
    /\ \E i \in DOMAIN result.rows :
         /\ storedRow(result.rows[i]).pickup_type = Null
         /\ storedRow(result.rows[i]).drop_off_type = Null
    /\ \E st \in stop_times :
         /\ st.pickup_type = 1
         /\ \A i \in DOMAIN result.rows : storedRow(result.rows[i]) # st

----------------------------------------------------------------------------
(* Claims about the realtime caches *)

\* A fetch has succeeded at t = cache.lastUpdated and now is before
\* t + refresh_period.
withinRefreshPeriod ==
    /\ cache.lastUpdated # ZeroTime
    /\ now < cache.lastUpdated + RefreshPeriod

\* C5: after a fetch has succeeded at time t, a get call made before
\* t + refresh_period performs no network fetch and returns the snapshot
\* that fetch stored, also when that snapshot has no entries.
C5_FreshServedFromCache ==
    [][\A c \in Callers :
          (withinRefreshPeriod /\ rpc[c] = "idle") =>
             /\ rpc'[c] # "fetching"
             /\ ret'[c] # ret[c] => ret'[c] = [data |-> cache.data, err |-> ""]]_vars

\* C6: a failed fetch leaves the stored snapshot and its timestamp as they
\* were, and its error is not returned while the stored snapshot is fresh.
C6_FailedFetchKeepsSnapshot ==
    [][\A c \in Callers :
          (rpc[c] = "fetching" /\ rpc'[c] = "idle" /\ ret'[c].err # "") =>
             /\ cache' = cache
             /\ heap' = heap
             /\ ~withinRefreshPeriod]_vars

\* The start of a TripUpdate read as a wall-clock time of the client's zone.
startedLocal(tu, t) ==
    /\ ~parseStart(tu.trip).err
    /\ parseStart(tu.trip).instant - localTimeZone <= t

\* C7: of the updates one fetched feed has for a trip_id exactly one is
\* selected: the started one with the largest timestamp when one has
\* started, else the first of the feed.
C7_SelectionPerTrip ==
    (kind = "tripUpdates" /\ lastFetch.feed # <<>>) =>
        LET feed == lastFetch.feed
            selected == lastFetch.updates
        IN  \A tripId \in {feed[i].trip.trip_id : i \in DOMAIN feed} :
              LET ofTrip == {i \in DOMAIN feed : feed[i].trip.trip_id = tripId}
                  started == {i \in ofTrip : startedLocal(feed[i], lastFetch.at)}
              IN  /\ tripId \in DOMAIN selected
                  /\ IF started # {}
                     THEN \E i \in started :
                            /\ selected[tripId] = feed[i]
                            /\ \A j \in started : feed[j].timestamp <= feed[i].timestamp
                     ELSE selected[tripId] = feed[Min(ofTrip)]

\* C21: an update of a fetched feed counts as started exactly when its start,
\* read as a wall-clock time of the client's zone, is at or before the
\* instant of the fetch, whatever the zone's offset from UTC.
C21_StartedInLocalZone ==
    (kind = "tripUpdates" /\ lastFetch.feed # <<>>) =>
        \A i \in DOMAIN lastFetch.feed :
            LET tu == lastFetch.feed[i] IN
            ~parseStart(tu.trip).err =>
                (hasStarted(tu.trip, lastFetch.at) <=> startedLocal(tu, lastFetch.at))

\* C10: the entries of a map a get call returned stay as they were returned
\* while the caller holds it.
C10_ReturnedSnapshotImmutable ==
    [][\A c \in Callers :
          ret[c].data # 0 => heap'[ret[c].data] = heap[ret[c].data]]_vars

\* The callers that are inside fetchProto.
fetching == {c \in Callers : rpc[c] = "fetching"}

\* The lock is held exactly while a call is inside fetchProto.
C11_FetchesNeverOverlap ==
    /\ Cardinality(fetching) <= 1
    /\ \A c \in Callers : rpc[c] = "fetching" <=> mu = c

\* C11: the freshness check, the fetch and the store of a get call are one
\* critical section: fetches never overlap, and a call that takes the lock
\* after another call's successful store, within refresh_period of it,
\* returns the stored snapshot without fetching.
C11_CriticalSection ==
    /\ []C11_FetchesNeverOverlap
    /\ [][\A c \in Callers :
             (/\ withinRefreshPeriod
              /\ \E d \in Callers \ {c} : ret[d] = [data |-> cache.data, err |-> ""]
              /\ rpc[c] = "idle") =>
                /\ rpc'[c] # "fetching"
                /\ ret'[c] # ret[c] => ret'[c] = [data |-> cache.data, err |-> ""]]_vars

\* merged is the union of existing and fetched by key, fetched entries first,
\* in non-decreasing stop_sequence.
keyedUnion(merged, existing, fetched) ==
    /\ keysOf(merged) = keysOf(existing) \cup keysOf(fetched)
    /\ \A i \in DOMAIN merged : stopKey(merged[i]) # noKey
    /\ \A i, j \in DOMAIN merged :
          stopKey(merged[i]) = stopKey(merged[j]) => i = j
    /\ \A i \in DOMAIN merged :
          IF stopKey(merged[i]) \in keysOf(fetched)
          THEN merged[i] \in Range(fetched)
          ELSE merged[i] \in Range(existing)
    /\ \A i \in 1..(Len(merged) - 1) :
          merged[i].stop_sequence <= merged[i + 1].stop_sequence

\* The trips the last store merged: cached before it and selected from it.
mergedTrips ==
    IF kind = "tripUpdates"
    THEN DOMAIN lastFetch.before \cap DOMAIN lastFetch.updates
    ELSE {}

\* C13: the StopTimeUpdate list a merge leaves in the cache is the union of
\* the cached and the fetched list by key (stop_sequence when it is not 0,
\* else stop_id): the fetched entry for a key of both sides, the only entry
\* for a key of one side, in non-decreasing stop_sequence.
C13_MergeIsKeyedUnion ==
    \A t \in mergedTrips :
        t \in DOMAIN heap[cache.data] /\
        keyedUnion(heap[cache.data][t].stop_time_update,
                   lastFetch.before[t].stop_time_update,
                   lastFetch.updates[t].stop_time_update)

\* A merge met a key of both sides with different entries, a key of the
\* cached side only and a key of the fetched side only.
C13_Witness ==
    \E t \in mergedTrips :
        LET existing == lastFetch.before[t].stop_time_update
            fetched == lastFetch.updates[t].stop_time_update
        IN  /\ \E i \in DOMAIN existing, j \in DOMAIN fetched :
                  /\ stopKey(existing[i]) = stopKey(fetched[j])
                  /\ stopKey(existing[i]) # noKey
                  /\ existing[i] # fetched[j]
            /\ keysOf(existing) \ keysOf(fetched) # {}
            /\ keysOf(fetched) \ keysOf(existing) # {}

\* A trip-update fetch has succeeded and its store is what the cache holds.
tripUpdatesStored ==
    kind = "tripUpdates" /\ cache.data # 0 /\ lastFetch # noFetch

\* C14: after a successful trip-update fetch the trip_ids of the cache are
\* the trip_ids selected from that fetch: of the trip_ids cached before it,
\* those the fetch did not select are gone and the others are still there.
C14_CacheHasTheSelectedTrips ==
    tripUpdatesStored =>
        LET cached == DOMAIN heap[cache.data]
            selected == DOMAIN lastFetch.updates
            before == DOMAIN lastFetch.before
        IN  /\ cached = selected
            /\ before \ cached = before \ selected
            /\ before \cap selected \subseteq cached

\* A store removed one cached trip_id, kept another and added none.
C14_Witness ==
    /\ tripUpdatesStored
    /\ DOMAIN lastFetch.before \ DOMAIN lastFetch.updates # {}
    /\ DOMAIN lastFetch.before \cap DOMAIN lastFetch.updates # {}
    /\ DOMAIN heap[cache.data] # {}

\* C15: while a trip_id is selected from every successful fetch, every key
\* (stop_sequence, or stop_id without a sequence) reported for it by one of
\* these fetches is a key of its cached TripUpdate; a key of a cached
\* TripUpdate is gone after a store only when the store did not select its
\* trip_id.
C15_ReportedKeysStay ==
    tripUpdatesStored =>
        /\ \A t \in DOMAIN lastFetch.reported :
              /\ t \in DOMAIN heap[cache.data]
              /\ lastFetch.reported[t]
                    \subseteq keysOf(heap[cache.data][t].stop_time_update)
        /\ \A t \in DOMAIN lastFetch.before :
              \A key \in keysOf(lastFetch.before[t].stop_time_update) :
                 (t \notin DOMAIN heap[cache.data]
                    \/ key \notin keysOf(heap[cache.data][t].stop_time_update))
                 => t \notin DOMAIN lastFetch.updates

\* A trip was selected from two fetches in a row, and the second did not
\* report a key the first had reported.
C15_Witness ==
    /\ tripUpdatesStored
    /\ \E t \in mergedTrips :
          lastFetch.reported[t] \ keysOf(lastFetch.updates[t].stop_time_update) # {}

----------------------------------------------------------------------------
(* Claims about the derived caches *)

\* C12: every signal sent on RefreshNotifier while a cache exists eventually
\* makes that cache call its source again: after the n-th such signal the
\* cache has called its source at least n + 1 times (once in GenerateACache,
\* once per signal), and that for each of the caches of the Database.
C12_EverySignalReloadsEveryCache ==
    \A k \in Caches : \A n \in 1..MaxSignals :
        (sent[k] >= n) ~> (loads[k] >= n + 1)

\* What get() may return at all: the sentinel or the transform of the source
\* result of a reload that has completed.
settledValues(k) ==
    {words(emptyValue)} \cup {words(transform(r)) : r \in completed[k]}

\* C18: a get() after a reload whose source call failed returns the empty
\* sentinel, a get() after a reload whose source and transform succeeded
\* returns the transform of that source result, and get() never returns
\* anything but the sentinel or the transformed result of a completed reload.
C18_GetReturnsSentinelOrTransform ==
    \A k \in Caches :
        LET g == lastGet[k] IN
        /\ (g.during = "waiting" /\ g.after.outcome = "sourceFailed") =>
              g.value = words(emptyValue)
        /\ (g.during = "waiting" /\ g.after.outcome = "ok") =>
              g.value = words(transform(g.after.data))
        /\ g.during # "none" => g.value \in settledValues(k)

\* A get() that ran while the sentinel was being stored after a failed
\* source call has returned a value that is neither the sentinel nor the
\* transform of a completed reload.
C18_TornValueReturned ==
    \E k \in Caches :
        /\ lastGet[k].during = "tearing"
        /\ lastGet[k].after.outcome = "sourceFailed"
        /\ lastGet[k].value \notin settledValues(k)

\* The three parts of C18 for the get() calls that did not run during a
\* store made outside the lock.
C18_SettledOutsideTheStore ==
    \A k \in Caches :
        LET g == lastGet[k] IN
        /\ (g.during = "waiting" /\ g.after.outcome = "sourceFailed") =>
              g.value = words(emptyValue)
        /\ (g.during = "waiting" /\ g.after.outcome = "ok") =>
              g.value = words(transform(g.after.data))
        /\ g.during \in {"waiting", "reloading"} => g.value \in settledValues(k)

\* C29: every write of the derived cache's stored value is made holding the
\* write lock, on success and on both failure paths, and get() never reads
\* the value while it is written: no store is ever in progress outside the
\* lock, and no get() has run during one.
C29_WritesHoldTheLock ==
    \A k \in Caches :
        /\ dpc[k] # "tearing"
        /\ lastGet[k].during # "tearing"

\* A get() has returned a value of which one word only had been written.
C29_TornRead ==
    \E k \in Caches :
        lastGet[k].during = "tearing" /\ lastGet[k].value.a # lastGet[k].value.b

\* The stores that follow a source failure and a transform failure are both
\* made outside the lock.
C29_UnlockedAfterSourceFailure ==
    \E k \in Caches : dpc[k] = "tearing" /\ last[k].outcome = "sourceFailed"
C29_UnlockedAfterTransformFailure ==
    \E k \in Caches : dpc[k] = "tearing" /\ last[k].outcome = "transformFailed"

----------------------------------------------------------------------------
(* Claims about the feed lifecycle *)

\* The callers that are inside refreshDatabaseData.
refreshing ==
    {p \in Refreshers :
        refresh[p].pc \in {"delete", "deleting", "fetch", "ingest", "commit", "fatal"}}

\* C8: at most one refresh of a Database runs at any time.
C8_OneRefreshAtATime == Cardinality(refreshing) <= 1

\* C9: when a refresh has failed, the tables hold the rows they held when
\* that refresh began; here for the refresh that New makes.
C9_FailedRefreshKeepsData ==
    (exited /\ "New" \in refreshing) => tablesNow = refresh["New"].before

\* The ingest of a member by p fails in this step.
memberFails(p) == MemberIngest(p) /\ refresh'[p].pc = "fatal"

\* C23: when reading or inserting a record of a member fails, the member's
\* transaction is rolled back: none of its rows are committed, no
\* transaction is left open, and no later member is ingested.
C23_FailedMemberRolledBack ==
    [][(\A p \in Refreshers :
           memberFails(p) => (tablesNow' = tablesNow /\ pending'[p] = noTx))
       /\ (\A p \in Refreshers :
              refresh[p].pc = "fatal" =>
                  (refresh'[p] = refresh[p] /\ pending'[p] = pending[p]))
       /\ (exited => (tablesNow' = tablesNow /\ refresh' = refresh))]_vars

\* The UTC calendar day of the instant t, as a date number.
today(t) == PlanDate + (t \div 86400)

\* feed_info has a row whose feed_end_date is a date, and that date's first
\* instant is after t: the date is a later day than the day of t.
endsAfter(t) ==
    /\ Len(feed_info) >= 1
    /\ validDate(feed_info[1].feed_end_date)
    /\ feed_info[1].feed_end_date > today(t)

\* New has gone past its call of IsFeedDataUpToDate in this step.
newChecksFeed == refresh["New"].pc = "start" /\ refresh'["New"].pc # "start"

\* C16: IsFeedDataUpToDate returns true exactly when feed_end_date parses as
\* a date that is strictly after the current instant, and false when the date
\* is at or before now, the row is missing or the date does not parse: New
\* skips the refresh in the first case and only then.
C16_UpToDateIffEndsAfterNow ==
    [][newChecksFeed => (refresh'["New"].pc = "idle" <=> endsAfter(now))]_vars

\* New found the feed up to date and left the database as it was opened.
C16_Witness ==
    /\ refresh["New"].pc = "idle"
    /\ cronStarted
    /\ feed_info # <<>>
    /\ feed_info[1].feed_version = 1
    /\ endsAfter(now)
    /\ now > 0

----------------------------------------------------------------------------
(* Claims about the planner *)

\* PlanJourneysRaptor has returned.
returned == pc = "done"

\* No stop is within max_walk_km of the point with these distances.
noStopWithin(dist) == \A s \in Stops : dist[s] > req.MaxWalkM

\* The rounds are over and no stop within max_walk_km of the end point has
\* a label.
noEndStopReached ==
    /\ ~req.DepartAtZero
    /\ ~noStopWithin(startDistM(req)) /\ ~noStopWithin(endDistM(req))
    /\ \A s \in Stops :
          endDistM(req)[s] <= req.MaxWalkM => s \notin DOMAIN predecessor

\* C19: PlanJourneysRaptor returns an error and no plan when depart_at is
\* the zero time, when no stop is within max_walk_km of the start point or of
\* the end point, and when no stop near the end was reached; when it returns
\* without an error there is at least one plan and every plan has a leg.
C19_ErrorOrPlansWithLegs ==
    returned =>
        /\ (\/ req.DepartAtZero
            \/ noStopWithin(startDistM(req))
            \/ noStopWithin(endDistM(req))
            \/ noEndStopReached) => (planErr # "" /\ plans = <<>>)
        /\ planErr # "" => plans = <<>>
        /\ planErr = "" =>
              /\ Len(plans) >= 1
              /\ \A i \in DOMAIN plans : Len(plans[i].Legs) >= 1

\* A call has returned plans without an error.
C19_Witness ==
    /\ returned
    /\ planErr = ""
    /\ Len(plans) >= 1
    /\ \E i \in DOMAIN plans : \E j \in DOMAIN plans[i].Legs :
          plans[i].Legs[j].Mode = "transit"

\* The call is over: it has returned, or its reconstruction never ends.
callOver == pc \in {"done", "hang"}

\* The call got as far as its rounds.
roundsRun == callOver /\ DOMAIN dayTable # {}

\* The stops within max_walk_km of the start point, with the arrival on foot.
walkArrival(s) ==
    req.DepartSec + walkDurationSeconds(startDistM(req)[s], req.WalkSpeed)
startStops == {s \in Stops : startDistM(req)[s] <= req.MaxWalkM}
endStops == {s \in Stops : endDistM(req)[s] <= req.MaxWalkM}

\* The rides of the day: a trip taken from one of its stop-times to a later
\* one.
rides ==
    {[trip |-> t, from |-> dayTable[t][i], to |-> dayTable[t][j]] :
        <<t, i, j>> \in {x \in (DOMAIN dayTable) \X (1..2) \X (1..2) :
                           /\ x[2] < x[3]
                           /\ x[3] <= Len(dayTable[x[1]])}}

\* The earliest arrival at each stop by a chain of at most n rides in which
\* every ride departs at or after the arrival at its boarding stop.
RECURSIVE chainArrival(_)
chainArrival(n) ==
    IF n = 0
    THEN [s \in Stops |-> IF s \in startStops THEN walkArrival(s) ELSE inf]
    ELSE LET before == chainArrival(n - 1)
         IN  [s \in Stops |->
                Min({before[s]} \cup
                    {r.to.ArrivalSec : r \in {x \in rides :
                        /\ x.to.StopID = s
                        /\ before[x.from.StopID] < inf
                        /\ x.from.DepartureSec >= before[x.from.StopID]}})]

\* A stop near the end point is reached from a stop near the start point by
\* a chain of one to K + 1 rides.
chainToEnd ==
    /\ roundsRun
    /\ \E e \in endStops : \E r \in rides :
          /\ r.to.StopID = e
          /\ chainArrival(req.MaxTransfers)[r.from.StopID] < inf
          /\ r.from.DepartureSec >= chainArrival(req.MaxTransfers)[r.from.StopID]

\* The feed is two kinds of ride, from S near the start to M and from M to E
\* near the end, that connect: walk to S, ride to M, ride to E, walk.
twoTrips(S, M, E) ==
    /\ roundsRun
    /\ S \in startStops /\ E \in endStops /\ M \notin {S, E}
    /\ S \notin endStops /\ M \notin endStops /\ E \notin startStops
    /\ \A r \in rides : \/ r.from.StopID = S /\ r.to.StopID = M
                        \/ r.from.StopID = M /\ r.to.StopID = E
    /\ \E r1, r2 \in rides :
          /\ r1.to.StopID = M /\ r2.from.StopID = M
          /\ r1.from.DepartureSec >= walkArrival(S)
          /\ r1.to.ArrivalSec <= r1.from.DepartureSec + 1
          /\ r2.from.DepartureSec >= r1.to.ArrivalSec
          /\ r2.to.ArrivalSec >= r2.from.DepartureSec

\* The first plan is walk to S, a ride S to M, a ride M to E on another trip
\* and the walk from E, with one transfer, at M, arriving when the second
\* ride reaches E plus the walk from E.
fourLegs(S, M, E) ==
    /\ pc = "done" /\ planErr = "" /\ Len(plans) >= 1
    /\ LET plan == plans[1]
           legs == plan.Legs
       IN  /\ Len(legs) = 4
           /\ <<legs[1].Mode, legs[2].Mode, legs[3].Mode, legs[4].Mode>>
                 = <<"walk", "transit", "transit", "walk">>
           /\ legs[1].ToStop = S
           /\ legs[2].FromStop = S /\ legs[2].ToStop = M
           /\ legs[3].FromStop = M /\ legs[3].ToStop = E
           /\ legs[4].FromStop = E
           /\ legs[2].TripID # legs[3].TripID
           /\ plan.Transfers = 1
           /\ plan.TransferStops = <<M>>
           /\ plan.ArrivalSec = legs[3].ArrivalSec
                 + walkDurationSeconds(endDistM(req)[E], req.WalkSpeed)
           /\ \E r \in rides : /\ r.trip = legs[3].TripID
                               /\ r.to.StopID = E
                               /\ r.to.ArrivalSec = legs[3].ArrivalSec

\* C20: when a stop near the end point is reached from a stop near the start
\* point by a chain of at most K + 1 trips of the day, each boarded at or
\* after the arrival at its boarding stop, the call returns a plan; and for
\* two trips meeting at M the plan is walk, transit, transit, walk with
\* Transfers = 1, TransferStops = [M] and the arrival of the second trip at E
\* plus the walk from E.
C20_ChainGivesPlan ==
    /\ chainToEnd => (pc = "done" /\ planErr = "" /\ Len(plans) >= 1)
    /\ \A S, M, E \in Stops : twoTrips(S, M, E) => fourLegs(S, M, E)


\* The smallest whole number that is at least num / den.
ceilDiv(num, den) == (num + den - 1) \div den

\* C22: the label of every stop near the start that the rounds have not
\* replaced is depart_sec plus the walking time rounded up to a whole second,
\* and that walking time is not shorter than distance / walk_speed.
C22_WalkRoundedUp ==
    \A s \in DOMAIN predecessor :
        predecessor[s].Mode = "walk-origin" =>
            LET walked == predecessor[s].ArriveSec - req.DepartSec
                metres == startDistM(req)[s]
            IN  /\ arrival[s] = req.DepartSec + ceilDiv(metres * 3600, req.WalkSpeed)
                /\ walked * req.WalkSpeed >= metres * 3600

\* The stops whose predecessor this step writes or rewrites.
rewritten ==
    {s \in DOMAIN predecessor' :
        s \notin DOMAIN predecessor \/ predecessor'[s] # predecessor[s]}

\* C17: in a round no stop's earliest arrival increases, and a stop's
\* predecessor is written only in a step that makes its earliest arrival
\* strictly smaller.
C17_ArrivalNeverIncreases ==
    [][pc = "rounds" =>
          /\ \A s \in DOMAIN arrival : arrival'[s] <= arrival[s]
          /\ \A s \in rewritten : arrival'[s] < arrival[s]]_vars

\* A round has replaced the finite arrival of a stop by a transit arrival.
C17_Witness ==
    /\ pc \in {"rounds", "select"}
    /\ round >= 1
    /\ \E s \in DOMAIN predecessor :
          /\ predecessor[s].Mode = "transit"
          /\ arrival[s] = predecessor[s].ArriveSec
          /\ s \in {c.Stop : c \in Range(nearbyStartStops(req))}

transitLegs(legs) == SelectSeq(legs, LAMBDA l : l.Mode = "transit")

\* The pairs of consecutive transit legs with different trip ids.
tripBoundaries(legs) ==
    LET t == transitLegs(legs)
    IN  Cardinality({i \in 1..(Len(t) - 1) : t[i].TripID # t[i + 1].TripID})

\* C1: every returned plan has at most K transfers, K the request's
\* max_transfers (2 when the request gives none), counted on its legs and as
\* reported in its Transfers field.
C1_TransferBound ==
    pc = "done" =>
        \A i \in DOMAIN plans :
            /\ tripBoundaries(plans[i].Legs) <= req.MaxTransfers
            /\ plans[i].Transfers <= req.MaxTransfers

\* C2: the legs of every returned plan are in chronological order: a leg
\* arrives at or after its departure and departs at or after the arrival of
\* the leg before it.
C2_LegsChronological ==
    pc = "done" =>
        \A i \in DOMAIN plans :
            LET legs == plans[i].Legs
            IN  /\ \A j \in DOMAIN legs : legs[j].ArrivalSec >= legs[j].DepartureSec
                /\ \A j \in 2..Len(legs) :
                       legs[j].DepartureSec >= legs[j - 1].ArrivalSec

\* The arrival stops of the transit legs that are followed by a transit leg
\* of another trip, from the i-th transit leg on, in the order of the legs.
RECURSIVE changeStopsFrom(_, _)
changeStopsFrom(t, i) ==
    IF i >= Len(t) THEN <<>>
    ELSE (IF t[i].TripID # t[i + 1].TripID THEN <<t[i].ToStop>> ELSE <<>>)
         \o changeStopsFrom(t, i + 1)

changeStops(legs) == changeStopsFrom(transitLegs(legs), 1)

\* C30: TransferStops of a returned plan has exactly Transfers entries, in
\* the order of the plan's Legs: its i-th entry is the arrival stop of the
\* earlier leg of the i-th trip change.
C30_TransferStopsInLegOrder ==
    pc = "done" =>
        \A i \in DOMAIN plans :
            /\ Len(plans[i].TransferStops) = plans[i].Transfers
            /\ plans[i].TransferStops = changeStops(plans[i].Legs)

\* TransferStops has exactly Transfers entries, and they are the stops of the
\* trip changes of Legs, whatever their order.
C30_TransferStopsCounted ==
    pc = "done" =>
        \A i \in DOMAIN plans :
            /\ Len(plans[i].TransferStops) = plans[i].Transfers
            /\ Len(plans[i].TransferStops) = Len(changeStops(plans[i].Legs))
            /\ Range(plans[i].TransferStops) = Range(changeStops(plans[i].Legs))

\* C30 for the plans with at most one transfer.
C30_OneTransferInLegOrder ==
    pc = "done" =>
        \A i \in DOMAIN plans :
            plans[i].Transfers <= 1 =>
                plans[i].TransferStops = changeStops(plans[i].Legs)

\* A plan with two transfers has been returned.
C30_TwoTransfers ==
    pc = "done" /\ \E i \in DOMAIN plans : plans[i].Transfers = 2

====
